---- MODULE Spec2Model ----
(***************************************************************************)
(* runez: process execution (program.py: run, daemonize, _run_popen) and   *)
(* python installation discovery (pyenv.py: PythonDepot and friends).      *)
(*                                                                         *)
(* Encoding of python values:                                              *)
(*   None is <<>>, any other optional value x is <<x>> (Some(x));          *)
(*   a tri-state flag (fatal) is one of "True", "False", "None";           *)
(*   bytes are sequences of integers, text is a sequence of characters.    *)
(***************************************************************************)
EXTENDS Integers, Sequences, FiniteSets, TLC

\* ------------------------------------------------------------------ bounds
MaxOut == 2
MaxErr == 1
MaxCode == 2

\* ------------------------------------------------------- python encodings
None == <<>>
Some(x) == <<x>>

Truthy(flag) == flag = "True"

\* truth value of an optional int (None and 0 are falsy)
TruthyCode(code) == code # None /\ code[1] # 0

\* truth value of an optional text (None and "" are falsy)
TruthyText(text) == text # None /\ text[1] # <<>>

Min(a, b) == IF a < b THEN a ELSE b

RECURSIVE Flatten(_)
Flatten(chunks) == IF chunks = <<>> THEN <<>> ELSE Head(chunks) \o Flatten(Tail(chunks))

\* ------------------------------------------------------------- run(): data
Procs == {"caller", "mid", "daemon"}
Streams == {"stdout", "stderr"}
Bytes == {10, 97}

Pid(p) == CASE p = "caller" -> 1 [] p = "mid" -> 2 [] p = "daemon" -> 3
ChildPid == 4

\* length argument of os.read()
ReadLength == 1024

EIO == 5
EBADF == 9

CharOf(b) == IF b = 10 THEN "\n" ELSE "a"

\* bytes.decode(): one character per byte
DecodeBytes(data) == [i \in 1..Len(data) |-> CharOf(data[i])]

RECURSIVE Strip(_)
Strip(text) ==
    IF text = <<>> THEN text
    ELSE IF Head(text) = "\n" THEN Strip(Tail(text))
    ELSE IF text[Len(text)] = "\n" THEN Strip(SubSeq(text, 1, Len(text) - 1))
    ELSE text

\* decode(value, strip): None stays None, bytes are decoded, text is stripped of newlines when asked
decode(value, strip) ==
    IF value = None THEN None
    ELSE Some(IF strip THEN Strip(value[1]) ELSE value[1])

\* uncolored(text): drop terminal escape characters
uncolored(text) ==
    IF text = None THEN None
    ELSE Some(SelectSeq(text[1], LAMBDA ch : ch # "ESC"))

\* RunResult.__init__ (code defaults to 1)
RunResult == [output |-> None, error |-> None, exit_code |-> Some(1), exc_info |-> None, pid |-> None, dryrun |-> FALSE]

\* RunResult.__bool__
Succeeded(r) == r.exit_code = Some(0)

\* description of the command line, as logged
Description(background) == IF background THEN <<"program args", " &">> ELSE <<"program args">>

VARIABLES
    opts,       \* arguments of the call: background, fatal, dryrun, stdout, stderr, passthrough, full_path
    pc,         \* position of every process in run()
    fatal,      \* local variable `fatal` of every process
    result,     \* local variable `result` of every process
    carried,    \* what a process that left run() abnormally carries: exit status, abort code or exception
    forks,      \* number of os.fork() calls made
    spawns,     \* number of subprocess.Popen() spawns made
    child,      \* the spawned program: state, exit code, spawner, streams it holds open
    written,    \* everything the program wrote so far, per stream
    ptybuf,     \* bytes written to a pty slave and not yet read from its master
    fds,        \* pty descriptors open in the spawning process
    readable,   \* watch set of the multiplexing loop
    ready,      \* descriptors returned by select() and not yet handled
    buffer,     \* stdout_buffer / stderr_buffer
    chunks,     \* every non-empty chunk read from each master, in order
    eof,        \* masters on which EOF (or EIO) was seen
    term,       \* what was written to the real sys.stdout / sys.stderr, one entry per write
    pending,    \* exception travelling out of the `with Popen` block
    world,      \* the machine a PythonDepot looks at: pyenv folders, PATH scanning, the running python
    depot,      \* the PythonDepot: objects, available, invalid, _cache, _path_scanned, invoker
    last,       \* the last public operation on the depot and its outcome
    calc        \* a call of a function that has no state: its name, its arguments, its value

runVars == <<opts, pc, fatal, result, carried, forks, spawns, child, written, ptybuf, fds,
             readable, ready, buffer, chunks, eof, term, pending>>

depotVars == <<world, depot, last>>

vars == <<runVars, depotVars, calc>>

Options ==
    [background : BOOLEAN, fatal : {"True", "False", "None"}, dryrun : BOOLEAN, stdout : {"PIPE", "None"},
     stderr : {"PIPE", "None"}, passthrough : BOOLEAN, full_path : BOOLEAN]

\* nothing carried: the process is still inside run(), or returned normally
NoCarry == [kind |-> "none", code |-> None, exc |-> "none"]

NoChild == [state |-> "none", code |-> None, spawner |-> None, open |-> {}]

EmptyStreams == [s \in Streams |-> <<>>]

\* a PythonDepot before its first scan: no object, empty lists, empty _cache
Blank ==
    [objs |-> <<>>, available |-> <<>>, invalid |-> <<>>, cache |-> <<>>, path_scanned |-> FALSE,
     invoker |-> 0, scans |-> 0]

NoWorld == [listing |-> <<>>, use_path |-> FALSE, invoker |-> "pyenv", opt |-> "new", venv |-> "usr"]

\* no function is being called
NoCall == [fn |-> "none", args |-> <<>>, value |-> None]

NoOp ==
    [op |-> "none", text |-> <<>>, as_spec |-> FALSE, fatal |-> FALSE, scan_path |-> FALSE, ret |-> 0,
     step |-> "", raised |-> None, aborted |-> FALSE, found |-> None, probes |-> 0, pre |-> Blank, n |-> 0,
     probed |-> <<>>, since |-> {}]

\* state at entry of run(), lines 288-310
RunInit ==
    /\ opts \in Options
    /\ pc = [p \in Procs |-> IF p = "caller" THEN "start" ELSE "none"]
    /\ fatal = [p \in Procs |-> opts.fatal]
    /\ result = [p \in Procs |-> RunResult]
    /\ carried = [p \in Procs |-> NoCarry]
    /\ forks = 0
    /\ spawns = 0
    /\ child = NoChild
    /\ written = EmptyStreams
    /\ ptybuf = EmptyStreams
    /\ fds = {}
    /\ readable = <<>>
    /\ ready = <<>>
    /\ buffer = EmptyStreams
    /\ chunks = EmptyStreams
    /\ eof = {}
    /\ term = EmptyStreams
    /\ pending = None
    /\ world = NoWorld
    /\ depot = Blank
    /\ last = NoOp
    /\ calc = NoCall

ptyVars == <<ptybuf, fds, readable, ready, buffer, chunks, eof, term, pending>>

\* abort(message, code, return_value, fatal): exits with `code` when fatal, else hands back return_value
abort(self, code, return_value) ==
    IF Truthy(fatal[self])
    THEN /\ pc' = [pc EXCEPT ![self] = "aborted"]
         /\ carried' = [carried EXCEPT ![self] = [kind |-> "abort", code |-> Some(code), exc |-> "SystemExit"]]
         /\ result' = [result EXCEPT ![self] = return_value]
    ELSE /\ pc' = [pc EXCEPT ![self] = "returned"]
         /\ result' = [result EXCEPT ![self] = return_value]
         /\ UNCHANGED carried

\* run(), lines 312-321: dryrun
DryRun ==
    /\ pc["caller"] = "start"
    /\ opts.dryrun
    /\ result' = [result EXCEPT !["caller"] =
            [@ EXCEPT !.dryrun = TRUE,
                      !.exit_code = Some(0),
                      !.output = IF opts.stdout # "None" THEN Some(<<"[dryrun] ">> \o Description(opts.background)) ELSE @,
                      !.error = IF opts.stdout # "None" THEN Some(<<>>) ELSE @]]
    /\ pc' = [pc EXCEPT !["caller"] = "returned"]
    /\ UNCHANGED <<calc, depotVars, opts, fatal, carried, forks, spawns, child, written, ptyVars>>

\* run(), lines 323-330: program could not be resolved
NotInstalled ==
    /\ pc["caller"] = "start"
    /\ ~opts.dryrun
    /\ ~opts.full_path
    /\ \E basename \in BOOLEAN :
          abort("caller", 1,
                [result["caller"] EXCEPT !.error =
                    Some(IF basename THEN <<"program is not installed">> ELSE <<"program is not an executable">>)])
    /\ UNCHANGED <<calc, depotVars, opts, fatal, forks, spawns, child, written, ptyVars>>

\* mutant of Running: the dryrun test is skipped
Running_IgnoresDryrun ==
    /\ pc["caller"] = "start"
    /\ opts.full_path
    /\ pc' = [pc EXCEPT !["caller"] = IF opts.background THEN "daemonize" ELSE "popen"]
    /\ UNCHANGED <<calc, depotVars, opts, fatal, result, carried, forks, spawns, child, written, ptyVars>>

\* run(), lines 332-333: "Running: ..." is logged, then the run is backgrounded or spawned
Running ==
    /\ pc["caller"] = "start"
    /\ ~opts.dryrun
    /\ opts.full_path
    /\ pc' = [pc EXCEPT !["caller"] = IF opts.background THEN "daemonize" ELSE "popen"]
    /\ UNCHANGED <<calc, depotVars, opts, fatal, result, carried, forks, spawns, child, written, ptyVars>>

\* daemonize(), lines 208-210: 1st fork, the calling process reports a successful run (run(), lines 334-338)
Fork1 ==
    /\ pc["caller"] = "daemonize"
    /\ forks' = forks + 1
    /\ result' = [result EXCEPT !["caller"] = [@ EXCEPT !.pid = Some(Pid("mid")), !.exit_code = Some(0)],
                                !["mid"] = result["caller"]]
    /\ pc' = [pc EXCEPT !["caller"] = "returned", !["mid"] = "setsid"]
    /\ UNCHANGED <<calc, depotVars, opts, fatal, carried, spawns, child, written, ptyVars>>

\* daemonize(), lines 212-214: new session, 2nd fork, the intermediate process exits with 0
Fork2 ==
    /\ pc["mid"] = "setsid"
    /\ forks' = forks + 1
    /\ result' = [result EXCEPT !["daemon"] = result["mid"]]
    /\ pc' = [pc EXCEPT !["mid"] = "exited", !["daemon"] = "devnull"]
    /\ carried' = [carried EXCEPT !["mid"] = [kind |-> "exit", code |-> Some(0), exc |-> "none"]]
    /\ UNCHANGED <<calc, depotVars, opts, fatal, spawns, child, written, ptyVars>>

\* mutant of Detach: fatal is left as the caller gave it
Detach_KeepsFatal ==
    /\ pc["daemon"] = "devnull"
    /\ pc' = [pc EXCEPT !["daemon"] = "popen"]
    /\ UNCHANGED <<calc, depotVars, opts, fatal, result, carried, forks, spawns, child, written, ptyVars>>

\* daemonize(), lines 216-220, and run(), line 340: streams go to the null device, fatal is turned off
Detach ==
    /\ pc["daemon"] = "devnull"
    /\ fatal' = [fatal EXCEPT !["daemon"] = "False"]
    /\ pc' = [pc EXCEPT !["daemon"] = "popen"]
    /\ UNCHANGED <<calc, depotVars, opts, result, carried, forks, spawns, child, written, ptyVars>>

\* mutant of Except: the error text is not filled in
Except_NoError(self, e) ==
    IF Truthy(fatal[self])
    THEN /\ pc' = [pc EXCEPT ![self] = "raised"]
         /\ carried' = [carried EXCEPT ![self] = [kind |-> "raise", code |-> None, exc |-> e.type]]
         /\ UNCHANGED result
    ELSE /\ pc' = [pc EXCEPT ![self] = "check"]
         /\ result' = [result EXCEPT ![self] = [@ EXCEPT !.exc_info = Some(e)]]
         /\ UNCHANGED carried

\* mutant of Except: the exception is raised again whatever fatal is
Except_AlwaysRaises(self, e) ==
    /\ pc' = [pc EXCEPT ![self] = "raised"]
    /\ carried' = [carried EXCEPT ![self] = [kind |-> "raise", code |-> None, exc |-> e.type]]
    /\ UNCHANGED result

\* run(), lines 350-357: the except clause around _run_popen
Except(self, e) ==
    IF Truthy(fatal[self])
    THEN /\ pc' = [pc EXCEPT ![self] = "raised"]
         /\ carried' = [carried EXCEPT ![self] = [kind |-> "raise", code |-> None, exc |-> e.type]]
         /\ UNCHANGED result
    ELSE /\ pc' = [pc EXCEPT ![self] = "check"]
         /\ result' = [result EXCEPT ![self] =
                 [@ EXCEPT !.exc_info = Some(e),
                           !.error = IF TruthyText(@) THEN @ ELSE Some(<<"program failed: ", e.type>>)]]
         /\ UNCHANGED carried

AllFds == {"stdout_r", "stdout_w", "stderr_r", "stderr_w"}
Masters == {"stdout_r", "stderr_r"}

\* subprocess.Popen() raises (lines 575 and 594); in a passthrough run the ptys were opened before (586-587)
PopenFails(self) ==
    /\ pc[self] = "popen"
    /\ \E e \in {[type |-> "Exception", errno |-> 0], [type |-> "OSError", errno |-> 2]} : Except(self, e)
    /\ fds' = IF opts.passthrough THEN AllFds ELSE fds
    /\ UNCHANGED <<calc, depotVars, opts, fatal, forks, spawns, child, written, ptybuf, readable, ready, buffer, chunks, eof, term, pending>>

Spawned(self) == [state |-> "running", code |-> None, spawner |-> Some(self), open |-> Streams]

\* _run_popen(), lines 574-577, and run(), lines 345-348: plain spawn; fire-and-forget when nothing is to be captured
PopenPlain(self) ==
    /\ pc[self] = "popen"
    /\ ~opts.passthrough
    /\ spawns' = spawns + 1
    /\ child' = Spawned(self)
    /\ IF fatal[self] = "None" /\ opts.stdout = "None" /\ opts.stderr = "None"
       THEN /\ result' = [result EXCEPT ![self] =
                    [@ EXCEPT !.output = None, !.error = None, !.pid = Some(ChildPid), !.exit_code = None]]
            /\ pc' = [pc EXCEPT ![self] = "check"]
       ELSE /\ pc' = [pc EXCEPT ![self] = "communicate"]
            /\ UNCHANGED result
    /\ UNCHANGED <<calc, depotVars, opts, fatal, carried, forks, written, ptyVars>>

\* what communicate() hands back for a stream: its whole content when piped, None otherwise
Captured(how, data) == IF how = "PIPE" THEN Some(DecodeBytes(data)) ELSE None

\* mutant of Communicate: the output is collected without waiting for the program
Communicate_NoWait(self) ==
    /\ pc[self] = "communicate"
    /\ result' = [result EXCEPT ![self] =
            [@ EXCEPT !.output = decode(decode(Captured(opts.stdout, written["stdout"]), FALSE), TRUE),
                      !.error = decode(decode(Captured(opts.stderr, written["stderr"]), FALSE), TRUE),
                      !.pid = Some(ChildPid),
                      !.exit_code = child.code]]
    /\ pc' = [pc EXCEPT ![self] = "check"]
    /\ UNCHANGED <<calc, depotVars, opts, fatal, carried, forks, spawns, child, written, ptyVars>>

\* _run_popen(), lines 582-583, and run(), lines 345-348: wait for the program, collect its output
Communicate(self) ==
    /\ pc[self] = "communicate"
    /\ child.state = "exited"
    /\ result' = [result EXCEPT ![self] =
            [@ EXCEPT !.output = decode(decode(Captured(opts.stdout, written["stdout"]), FALSE), TRUE),
                      !.error = decode(decode(Captured(opts.stderr, written["stderr"]), FALSE), TRUE),
                      !.pid = Some(ChildPid),
                      !.exit_code = child.code]]
    /\ pc' = [pc EXCEPT ![self] = "check"]
    /\ UNCHANGED <<calc, depotVars, opts, fatal, carried, forks, spawns, child, written, ptyVars>>

\* _run_popen(), lines 586-597: open two ptys, spawn on the slaves, close the slaves, watch the masters
PopenPty(self) ==
    /\ pc[self] = "popen"
    /\ opts.passthrough
    /\ spawns' = spawns + 1
    /\ child' = Spawned(self)
    /\ fds' = Masters
    /\ readable' = <<"stdout", "stderr">>
    /\ pc' = [pc EXCEPT ![self] = "loop"]
    /\ UNCHANGED <<calc, depotVars, opts, fatal, result, carried, forks, written, ptybuf, ready, buffer, chunks, eof, term, pending>>

MaxBytes(s) == IF s = "stdout" THEN MaxOut ELSE MaxErr

\* the spawned program writes a byte to one of its standard streams
ChildWrite(s) ==
    /\ child.state = "running"
    /\ s \in child.open
    /\ Len(written[s]) < MaxBytes(s)
    /\ \E b \in Bytes :
          /\ written' = [written EXCEPT ![s] = Append(@, b)]
          /\ ptybuf' = IF opts.passthrough THEN [ptybuf EXCEPT ![s] = Append(@, b)] ELSE ptybuf
    /\ UNCHANGED <<calc, depotVars, opts, pc, fatal, result, carried, forks, spawns, child, fds, readable, ready, buffer, chunks, eof, term, pending>>

\* the spawned program closes one of its standard streams
ChildClose(s) ==
    /\ child.state = "running"
    /\ s \in child.open
    /\ child' = [child EXCEPT !.open = @ \ {s}]
    /\ UNCHANGED <<calc, depotVars, opts, pc, fatal, result, carried, forks, spawns, written, ptyVars>>

\* the spawned program exits
ChildExit ==
    /\ child.state = "running"
    /\ \E c \in 0..MaxCode : child' = [child EXCEPT !.state = "exited", !.code = Some(c), !.open = {}]
    /\ UNCHANGED <<calc, depotVars, opts, pc, fatal, result, carried, forks, spawns, written, ptyVars>>

\* a master is readable when data is waiting or when the slave side was closed by every holder
IsReady(s) == ptybuf[s] # <<>> \/ s \notin child.open

\* list.remove(x): drops the first occurrence of x
ListRemove(seq, x) ==
    LET i == CHOOSE k \in 1..Len(seq) : seq[k] = x /\ \A j \in 1..(k - 1) : seq[j] # x
    IN  SubSeq(seq, 1, i - 1) \o SubSeq(seq, i + 1, Len(seq))

InSeq(seq, x) == \E k \in 1..Len(seq) : seq[k] = x

\* _run_popen(), line 599: select() blocks until some watched master is readable
Select(self) ==
    /\ pc[self] = "loop"
    /\ ready = <<>>
    /\ readable # <<>>
    /\ SelectSeq(readable, IsReady) # <<>>
    /\ ready' = SelectSeq(readable, IsReady)
    /\ UNCHANGED <<calc, depotVars, opts, pc, fatal, result, carried, forks, spawns, child, written, ptybuf, fds,
                   readable, buffer, chunks, eof, term, pending>>

\* _run_popen(), lines 603 and 620: readable.remove(fd); list.remove raises ValueError for a missing item
RemoveWatched(self, fd) ==
    IF InSeq(readable, fd)
    THEN /\ readable' = ListRemove(readable, fd)
         /\ eof' = eof \cup {fd}
         /\ UNCHANGED <<pc, pending>>
    ELSE /\ pending' = Some([type |-> "ValueError", errno |-> 0])
         /\ pc' = [pc EXCEPT ![self] = "unwind"]
         /\ UNCHANGED <<readable, eof>>

\* mutant of ReadChunk: every chunk goes to the real stdout
ReadChunk_WrongStream(self) ==
    /\ pc[self] = "loop"
    /\ ready # <<>>
    /\ LET fd == Head(ready)
           data == SubSeq(ptybuf[fd], 1, Min(Len(ptybuf[fd]), ReadLength))
       IN  /\ data # <<>>
           /\ ptybuf' = [ptybuf EXCEPT ![fd] = SubSeq(@, Len(data) + 1, Len(@))]
           /\ chunks' = [chunks EXCEPT ![fd] = Append(@, data)]
           /\ term' = [term EXCEPT !["stdout"] = Append(@, DecodeBytes(data))]
           /\ buffer' = [buffer EXCEPT ![fd] = @ \o data]
    /\ ready' = Tail(ready)
    /\ UNCHANGED <<calc, depotVars, opts, pc, fatal, result, carried, forks, spawns, child, written, fds, readable, eof, pending>>

\* _run_popen(), lines 601-614: a chunk is read, written to the real stream, appended to the buffer
ReadChunk(self) ==
    /\ pc[self] = "loop"
    /\ ready # <<>>
    /\ LET fd == Head(ready)
           data == SubSeq(ptybuf[fd], 1, Min(Len(ptybuf[fd]), ReadLength))
       IN  /\ data # <<>>
           /\ ptybuf' = [ptybuf EXCEPT ![fd] = SubSeq(@, Len(data) + 1, Len(@))]
           /\ chunks' = [chunks EXCEPT ![fd] = Append(@, data)]
           /\ IF fd = "stdout"
              THEN /\ term' = [term EXCEPT !["stdout"] = Append(@, DecodeBytes(data))]
                   /\ buffer' = [buffer EXCEPT !["stdout"] = @ \o data]
              ELSE /\ term' = [term EXCEPT !["stderr"] = Append(@, DecodeBytes(data))]
                   /\ buffer' = [buffer EXCEPT !["stderr"] = @ \o data]
    /\ ready' = Tail(ready)
    /\ UNCHANGED <<calc, depotVars, opts, pc, fatal, result, carried, forks, spawns, child, written, fds, readable, eof, pending>>

\* _run_popen(), lines 601-604: an empty read, the master is not watched any more
ReadEOF(self) ==
    /\ pc[self] = "loop"
    /\ ready # <<>>
    /\ ptybuf[Head(ready)] = <<>>
    /\ Head(ready) \notin child.open
    /\ RemoveWatched(self, Head(ready))
    /\ ready' = Tail(ready)
    /\ UNCHANGED <<calc, depotVars, opts, fatal, result, carried, forks, spawns, child, written, ptybuf, fds, buffer, chunks, term>>

\* mutant of ReadOSError: EIO on one master ends the watch of both
ReadOSError_StopsWatching(self, errno) ==
    /\ pc[self] = "loop"
    /\ ready # <<>>
    /\ errno = EIO => (ptybuf[Head(ready)] = <<>> /\ Head(ready) \notin child.open)
    /\ IF errno # EIO
       THEN /\ pending' = Some([type |-> "OSError", errno |-> errno])
            /\ pc' = [pc EXCEPT ![self] = "unwind"]
            /\ UNCHANGED <<readable, eof>>
       ELSE /\ readable' = <<>>
            /\ eof' = eof \cup {Head(ready)}
            /\ UNCHANGED <<pc, pending>>
    /\ ready' = Tail(ready)
    /\ UNCHANGED <<calc, depotVars, opts, fatal, result, carried, forks, spawns, child, written, ptybuf, fds, buffer, chunks, term>>

\* _run_popen(), lines 616-620: os.read() raises OSError; EIO counts as EOF, anything else is raised
ReadOSError(self, errno) ==
    /\ pc[self] = "loop"
    /\ ready # <<>>
    /\ errno = EIO => (ptybuf[Head(ready)] = <<>> /\ Head(ready) \notin child.open)
    /\ IF errno # EIO
       THEN /\ pending' = Some([type |-> "OSError", errno |-> errno])
            /\ pc' = [pc EXCEPT ![self] = "unwind"]
            /\ UNCHANGED <<readable, eof>>
       ELSE RemoveWatched(self, Head(ready))
    /\ ready' = Tail(ready)
    /\ UNCHANGED <<calc, depotVars, opts, fatal, result, carried, forks, spawns, child, written, ptybuf, fds, buffer, chunks, term>>

\* _run_popen(), line 598: `while readable` ends the loop once nothing is watched
LoopEnd(self) ==
    /\ pc[self] = "loop"
    /\ ready = <<>>
    /\ readable = <<>>
    /\ pc' = [pc EXCEPT ![self] = "with_exit"]
    /\ UNCHANGED <<calc, depotVars, opts, fatal, result, carried, forks, spawns, child, written, ptyVars>>

\* _run_popen(), lines 594 and 622-624, run(), lines 345-348: Popen.__exit__ waits for the program,
\* the masters are closed, the buffers become output and error
PassthroughDone(self) ==
    /\ pc[self] = "with_exit"
    /\ child.state = "exited"
    /\ fds' = fds \ Masters
    /\ result' = [result EXCEPT ![self] =
            [@ EXCEPT !.output = decode(uncolored(decode(Some(DecodeBytes(buffer["stdout"])), FALSE)), TRUE),
                      !.error = decode(uncolored(decode(Some(DecodeBytes(buffer["stderr"])), FALSE)), TRUE),
                      !.pid = Some(ChildPid),
                      !.exit_code = child.code]]
    /\ pc' = [pc EXCEPT ![self] = "check"]
    /\ UNCHANGED <<calc, depotVars, opts, fatal, carried, forks, spawns, child, written, ptybuf, readable, ready, buffer,
                   chunks, eof, term, pending>>

\* _run_popen(), line 594, run(), lines 350-357: an exception leaves the `with Popen` block, whose
\* exit waits for the program, and reaches the except clause of run()
PassthroughRaises(self) ==
    /\ pc[self] = "unwind"
    /\ child.state = "exited"
    /\ Except(self, pending[1])
    /\ UNCHANGED <<calc, depotVars, opts, fatal, forks, spawns, child, written, ptyVars>>


\* mutant of AbortNonZero: the abort carries the default code
AbortNonZero_DefaultCode(self) ==
    /\ pc[self] = "check"
    /\ Truthy(fatal[self])
    /\ TruthyCode(result[self].exit_code)
    /\ abort(self, 1, result[self])
    /\ UNCHANGED <<calc, depotVars, opts, fatal, forks, spawns, child, written, ptyVars>>

\* run(), lines 359-380: non-zero exit code in fatal mode
AbortNonZero(self) ==
    /\ pc[self] = "check"
    /\ Truthy(fatal[self])
    /\ TruthyCode(result[self].exit_code)
    /\ IF opts.passthrough /\ (TruthyText(result[self].output) \/ TruthyText(result[self].error))
       THEN \E kind \in {"SystemExit", "Exception", "abort"} :
               IF kind = "abort"
               THEN abort(self, result[self].exit_code[1], result[self])
               ELSE /\ pc' = [pc EXCEPT ![self] = "aborted"]
                    /\ carried' = [carried EXCEPT ![self] =
                            [kind |-> "abort", code |-> result[self].exit_code, exc |-> kind]]
                    /\ UNCHANGED result
       ELSE abort(self, result[self].exit_code[1], result[self])
    /\ UNCHANGED <<calc, depotVars, opts, fatal, forks, spawns, child, written, ptyVars>>

\* run(), lines 382-383: the detached process exits with the program's exit code
ExitBackground(self) ==
    /\ pc[self] = "check"
    /\ ~(Truthy(fatal[self]) /\ TruthyCode(result[self].exit_code))
    /\ opts.background
    /\ pc' = [pc EXCEPT ![self] = "exited"]
    /\ carried' = [carried EXCEPT ![self] = [kind |-> "exit", code |-> result[self].exit_code, exc |-> "none"]]
    /\ UNCHANGED <<calc, depotVars, opts, fatal, result, forks, spawns, child, written, ptyVars>>

\* run(), line 385
Return(self) ==
    /\ pc[self] = "check"
    /\ ~(Truthy(fatal[self]) /\ TruthyCode(result[self].exit_code))
    /\ ~opts.background
    /\ pc' = [pc EXCEPT ![self] = "returned"]
    /\ UNCHANGED <<calc, depotVars, opts, fatal, result, carried, forks, spawns, child, written, ptyVars>>

\* ============================================================== pyenv.py
\* Text is a sequence of tokens: one token per digit and per punctuation character, one token per
\* word (python, conda, rc, ...); a path is "/" followed by its components.

Digit == {"0", "1", "2", "3", "4", "5", "6", "7", "8", "9"}

DigitVal(t) ==
    CASE t = "0" -> 0 [] t = "1" -> 1 [] t = "2" -> 2 [] t = "3" -> 3 [] t = "4" -> 4
      [] t = "5" -> 5 [] t = "6" -> 6 [] t = "7" -> 7 [] t = "8" -> 8 [] t = "9" -> 9

\* int(text) of a run of digits ("" counts as 0, as in `int(x or 0)`)
RECURSIVE ToInt(_)
ToInt(ds) == IF ds = <<>> THEN 0 ELSE 10 * ToInt(SubSeq(ds, 1, Len(ds) - 1)) + DigitVal(ds[Len(ds)])

\* length of the longest run of digits of text that starts at position i
RECURSIVE DigitRun(_, _)
DigitRun(text, i) == IF i <= Len(text) /\ text[i] \in Digit THEN 1 + DigitRun(text, i + 1) ELSE 0

\* b.startswith(a)
StartsWith(b, a) == Len(a) <= Len(b) /\ SubSeq(b, 1, Len(a)) = a

\* tokens in the order of python's string comparison
TokenOrder ==
    <<"-", ".", "/", "0", "1", "2", "3", "4", "5", "6", "7", "8", "9", ":", "?", "a", "anaconda",
      "b", "bin", "c", "conda", "cpython", "dev", "final", "foo", "gone", "home", "invoker",
      "local", "miniconda", "nowhere", "opt", "p", "post", "py", "pyenv", "pypy", "python", "rc",
      "usr", "venv", "versions", "x", "~">>

TokenRank(t) == IF InSeq(TokenOrder, t) THEN CHOOSE k \in 1..Len(TokenOrder) : TokenOrder[k] = t ELSE 0

\* a < b on strings
RECURSIVE StrLt(_, _)
StrLt(a, b) ==
    IF b = <<>> THEN FALSE
    ELSE IF a = <<>> THEN TRUE
    ELSE IF Head(a) = Head(b) THEN StrLt(Tail(a), Tail(b))
    ELSE TokenRank(Head(a)) < TokenRank(Head(b))

\* a < b on tuples of integers
RECURSIVE TupleLt(_, _)
TupleLt(a, b) ==
    IF b = <<>> THEN FALSE
    ELSE IF a = <<>> THEN TRUE
    ELSE IF Head(a) = Head(b) THEN TupleLt(Tail(a), Tail(b))
    ELSE Head(a) < Head(b)

\* ----------------------------------------------------------------- Version
\* R_VERSION, `((\.(\d+))*)`: position after the dotted numbers that follow position i
RECURSIVE MainEnd(_, _)
MainEnd(text, i) ==
    IF i <= Len(text) /\ text[i] = "." /\ DigitRun(text, i + 1) > 0
    THEN MainEnd(text, i + 1 + DigitRun(text, i + 1))
    ELSE i

\* "1.2.3".split(".") as integers
RECURSIVE SplitNumbers(_)
SplitNumbers(text) ==
    IF text = <<>> THEN <<>>
    ELSE LET n == DigitRun(text, 1)
         IN  <<ToInt(SubSeq(text, 1, n))>> \o SplitNumbers(SubSeq(text, n + 2, Len(text)))

RECURSIVE PadZeros(_, _)
PadZeros(components, n) == IF Len(components) < n THEN PadZeros(Append(components, 0), n) ELSE components

MaxParts == 4

\* rank of a prerelease kind in python's string order: "_a" < "_b" < "_c" < "_rc" < "dev"
KindRank(kind) == CASE kind = "_a" -> 1 [] kind = "_b" -> 2 [] kind = "_c" -> 3 [] kind = "_rc" -> 4 [] kind = "dev" -> 5

PreKind(tag) == CASE tag = "a" -> "_a" [] tag = "b" -> "_b" [] tag = "c" -> "_c" [] tag = "rc" -> "_rc"

\* Version.__init__ without the zeros of lines 513-514
VersionOf_NoPadding(text, i2, stop, pre, pre_num, rel, rel_num) ==
    LET components == SplitNumbers(SubSeq(text, 1, i2 - 1))
        kind == IF rel = Some("dev") THEN Some("dev") ELSE IF pre # None THEN Some(PreKind(pre[1])) ELSE None
    IN  IF Len(components) > MaxParts
        THEN [text |-> SubSeq(text, 1, stop), components |-> None, prerelease |-> None]
        ELSE [text |-> SubSeq(text, 1, stop),
              components |-> Append(components,
                                    IF rel \in {Some("final"), Some("post")} THEN ToInt(rel_num) ELSE 0),
              prerelease |-> IF kind = None THEN None ELSE <<KindRank(kind[1]), ToInt(pre_num)>>]

\* Version.__init__, from the groups of R_VERSION: the text matched is text[1..stop], the
\* dotted numbers end before position i2, `pre`/`pre_num` and `rel`/`rel_num` are groups 7, 8, 10, 11
VersionOf(text, i2, stop, pre, pre_num, rel, rel_num) ==
    LET components == SplitNumbers(SubSeq(text, 1, i2 - 1))
        kind == IF rel = Some("dev") THEN Some("dev") ELSE IF pre # None THEN Some(PreKind(pre[1])) ELSE None
    IN  IF Len(components) > MaxParts
        THEN [text |-> SubSeq(text, 1, stop), components |-> None, prerelease |-> None]
        ELSE [text |-> SubSeq(text, 1, stop),
              components |-> Append(PadZeros(components, MaxParts),
                                    IF rel \in {Some("final"), Some("post")} THEN ToInt(rel_num) ELSE 0),
              prerelease |-> IF kind = None THEN None ELSE <<KindRank(kind[1]), ToInt(pre_num)>>]

\* R_VERSION, `(\.(dev|post|final)\.?(\d+))?` at position i3
VersionRel(text, i2, i3, pre, pre_num) ==
    LET dot2 == IF i3 + 2 <= Len(text) /\ text[i3 + 2] = "." THEN 1 ELSE 0
        n == DigitRun(text, i3 + 2 + dot2)
    IN  IF i3 + 1 <= Len(text) /\ text[i3] = "." /\ text[i3 + 1] \in {"dev", "post", "final"} /\ n > 0
        THEN VersionOf(text, i2, i3 + 1 + dot2 + n, pre, pre_num, Some(text[i3 + 1]),
                       SubSeq(text, i3 + 2 + dot2, i3 + 1 + dot2 + n))
        ELSE VersionOf(text, i2, i3 - 1, pre, pre_num, None, <<>>)

\* R_VERSION, `((a|b|c|rc)(\d+))?` at position i2
VersionPre(text, i2) ==
    LET n == DigitRun(text, i2 + 1)
    IN  IF i2 <= Len(text) /\ text[i2] \in {"a", "b", "c", "rc"} /\ n > 0
        THEN VersionRel(text, i2, i2 + 1 + n, Some(text[i2]), SubSeq(text, i2 + 1, i2 + n))
        ELSE VersionRel(text, i2, i2, None, <<>>)

\* Version.__init__
Version(text) ==
    IF DigitRun(text, 1) = 0 THEN [text |-> text, components |-> None, prerelease |-> None]
    ELSE VersionPre(text, MainEnd(text, 1 + DigitRun(text, 1)))

\* Version.is_valid
is_valid(v) == v.components # None

\* Version.major
major(v) == IF v.components = None THEN None ELSE Some(v.components[1])

\* Version.__eq__
VersionEq(a, b) == a.components = b.components /\ a.prerelease = b.prerelease

\* Version.__hash__: the hash of the text
VersionHash(v) == v.text

\* Version.__lt__ returning its own tuple, not the other one, where a tuple is missing
VersionLt_OwnTuple(a, b) ==
    IF a.components = None \/ b.components = None THEN a.components # None
    ELSE IF a.components = b.components
         THEN IF a.prerelease # None
              THEN b.prerelease # None /\ TupleLt(a.prerelease, b.prerelease)
              ELSE b.prerelease # None
         ELSE TupleLt(a.components, b.components)

\* Version.__lt__ with the prerelease tags looked at before the numbers
VersionLt_TagFirst(a, b) ==
    IF a.components = None \/ b.components = None THEN b.components # None
    ELSE IF a.components = b.components \/ a.prerelease # b.prerelease
         THEN IF a.prerelease # None
              THEN b.prerelease # None /\ TupleLt(a.prerelease, b.prerelease)
              ELSE b.prerelease # None
         ELSE TupleLt(a.components, b.components)

\* Version.__lt__, as a truth value
VersionLt(a, b) ==
    IF a.components = None \/ b.components = None THEN b.components # None
    ELSE IF a.components = b.components
         THEN IF a.prerelease # None
              THEN b.prerelease # None /\ TupleLt(a.prerelease, b.prerelease)
              ELSE b.prerelease # None
         ELSE TupleLt(a.components, b.components)

\* ---------------------------------------------------- OrderedByName, families
Contains(seq, x) == \E k \in 1..Len(seq) : seq[k] = x

RECURSIVE AppendMissing(_, _)
AppendMissing(order, slots) ==
    IF slots = <<>> THEN order
    ELSE AppendMissing(IF Contains(order, Head(slots)) THEN order ELSE Append(order, Head(slots)), Tail(slots))

\* OrderedByName.__init__ where a name listed twice keeps its first position
OrderedByName_FirstMention(slots, order, reverse, name) ==
    LET full == AppendMissing(order, slots)
        i == CHOOSE k \in 1..Len(full) : full[k] = name /\ \A j \in 1..(k - 1) : full[j] # name
    IN  IF reverse THEN Len(full) - (i - 1) ELSE i - 1

\* OrderedByName.__init__: the priority given to `name`; a name listed twice keeps its last position
OrderedByName(slots, order, reverse, name) ==
    LET full == AppendMissing(order, slots)
        i == CHOOSE k \in 1..Len(full) : full[k] = name /\ \A j \in (k + 1)..Len(full) : full[j] # name
    IN  IF reverse THEN Len(full) - (i - 1) ELSE i - 1

\* Origins() and Families() of PythonDepot.__init__: no override
OriginPriority(name) == OrderedByName(<<"adhoc", "pyenv", "path">>, <<>>, TRUE, name)
FamilyPriority(name) == OrderedByName(<<"cpython", "pypy", "conda">>, <<>>, TRUE, name)

\* the family names a token contains as a substring
TokenFamilies(t) ==
    CASE t \in {"cpython"} -> {"cpython"}
      [] t \in {"pypy"} -> {"pypy"}
      [] t \in {"conda", "anaconda", "miniconda"} -> {"conda"}
      [] OTHER -> {}

\* Families.guess_family
guess_family(text) ==
    LET found == UNION {TokenFamilies(text[k]) : k \in 1..Len(text)}
    IN  IF "cpython" \in found THEN "cpython"
        ELSE IF "pypy" \in found THEN "pypy"
        ELSE IF "conda" \in found THEN "conda"
        ELSE "cpython"

\* --------------------------------------------------------------- PythonSpec
CPYTHON_NAMES == {<<"python">>, <<>>, <<"p">>, <<"py">>, <<"cpython">>}

\* _is_path
is_path(text) == text # <<>> /\ (text[1] \in {"~", ".", "/"} \/ Contains(text, "/"))

\* resolved_path: "~" is expanded to the home folder /home, an absolute path is itself
resolved_path(text) == IF text # <<>> /\ text[1] = "~" THEN <<"/", "home">> \o Tail(text) ELSE text

RECURSIVE JoinDots(_)
JoinDots(parts) ==
    IF parts = <<>> THEN <<>>
    ELSE IF Len(parts) = 1 THEN parts[1]
    ELSE parts[1] \o <<".">> \o JoinDots(Tail(parts))

\* text[i], or "$" past the end
At(text, i) == IF i <= Len(text) THEN text[i] ELSE "$"

\* R_SPEC, `([0-9]*)\.?`: position after the digits that start at i and the dot that may follow
AfterGroup(text, i) ==
    IF At(text, i + DigitRun(text, i)) = "." THEN i + DigitRun(text, i) + 1 ELSE i + DigitRun(text, i)

Group(text, i) == SubSeq(text, i, i + DigitRun(text, i) - 1)

\* R_SPEC from group 4 on, which starts at position i; the groups 4, 5, 6 when the text matches
SpecGroups(text, i) ==
    IF AfterGroup(text, AfterGroup(text, i)) + DigitRun(text, AfterGroup(text, AfterGroup(text, i))) = Len(text) + 1
    THEN Some(<<Group(text, i), Group(text, AfterGroup(text, i)), Group(text, AfterGroup(text, AfterGroup(text, i)))>>)
    ELSE None

\* R_SPEC, `[:-]?` at position i
SpecSeparator(text, i) == SpecGroups(text, IF At(text, i) \in {":", "-"} THEN i + 1 ELSE i)

\* R_SPEC: the groups 4, 5, 6 of the match, None when the text does not match
SpecMatch(text) ==
    IF At(text, 1) \in {"p", "py", "python", "cpython", "pypy"} THEN SpecSeparator(text, 2)
    ELSE IF At(text, 1) \in {"conda", "anaconda", "miniconda"} THEN SpecSeparator(text, IF At(text, 2) \in {"2", "3"} THEN 3 ELSE 2)
    ELSE SpecSeparator(text, 1)

SpecOfVersion_KeepsText(text, family, version) ==
    [text |-> text, family |-> family, canonical |-> <<family, ":">> \o text, version |-> Some(version)]

\* PythonSpec.__init__, lines 144-146
SpecOfVersion(text, family, version) ==
    [text |-> text, family |-> family, canonical |-> <<family, ":">> \o version.text, version |-> Some(version)]

\* PythonSpec.__init__, lines 140-146
SpecOfComponents(text, family, given) ==
    LET components == IF Len(given) = 1 THEN [k \in 1..Len(given[1]) |-> <<given[1][k]>>] ELSE given
    IN  IF components # <<>> /\ Len(components) <= 3
        THEN SpecOfVersion(text, family, Version(JoinDots(components)))
        ELSE [text |-> text, family |-> family, canonical |-> <<"?">> \o text, version |-> None]

\* PythonSpec.__init__, lines 135-146
SpecOfMatch(text, family, m) ==
    IF m = None THEN [text |-> text, family |-> family, canonical |-> <<"?">> \o text, version |-> None]
    ELSE SpecOfComponents(text, family, SelectSeq(m[1], LAMBDA g : g # <<>>))

\* PythonSpec.__init__
PythonSpec(text, family) ==
    IF text \in CPYTHON_NAMES THEN [text |-> text, family |-> family, canonical |-> <<family>>, version |-> None]
    ELSE IF is_path(text) THEN [text |-> text, family |-> family, canonical |-> resolved_path(text), version |-> None]
    ELSE SpecOfMatch(text, family, SpecMatch(text))

\* PythonDepot.spec_from_text: the family is guessed from `family` (a path) when given, else from the text
spec_from_text(text, family) == PythonSpec(text, guess_family(IF family # <<>> THEN family ELSE text))

\* PythonSpec.__lt__, as a truth value
SpecLt(a, b) ==
    IF FamilyPriority(a.family) = FamilyPriority(b.family)
    THEN IF a.version # None
         THEN b.version # None /\ VersionLt(a.version[1], b.version[1])
         ELSE b.version # None \/ StrLt(a.canonical, b.canonical)
    ELSE FamilyPriority(a.family) < FamilyPriority(b.family)

\* ------------------------------------------------------------- the machine
Join(a, b) == a \o <<"/">> \o b

\* os.path.dirname
RECURSIVE dirname(_)
dirname(path) ==
    IF path = <<>> THEN <<>>
    ELSE IF path[Len(path)] = "/" THEN (IF Len(path) = 1 THEN path ELSE SubSeq(path, 1, Len(path) - 1))
    ELSE dirname(SubSeq(path, 1, Len(path) - 1))

V397 == <<"3", ".", "9", ".", "7">>
V3102 == <<"3", ".", "1", "0", ".", "2">>
V381 == <<"3", ".", "8", ".", "1">>
V369 == <<"3", ".", "6", ".", "9">>
V3114 == <<"3", ".", "1", "1", ".", "4">>
V310rc == <<"3", ".", "1", "0", ".", "0", "rc", "1">>
V39 == <<"3", ".", "9">>
Pypy37 == <<"pypy", "3", ".", "7">>
Foo == <<"foo">>

\* the location given as `pyenv` to PythonDepot()
PyenvRoot == <<"/", "pyenv">>
PyenvVersions == Join(PyenvRoot, <<"versions">>)
PyenvFolder(fname) == Join(PyenvVersions, fname)
BinPython(folder) == Join(Join(folder, <<"bin">>), <<"python">>)

Usr == <<"/", "usr">>
UsrBinPython3 == Join(Join(Usr, <<"bin">>), <<"python", "3">>)
UsrLocalBin == Join(Join(Usr, <<"local">>), <<"bin">>)
OptBin == Join(<<"/", "opt">>, <<"bin">>)
Venv == <<"/", "venv">>
Copied == <<"/", "copied">>
Gone == <<"/", "gone">>
Nowhere == <<"/", "nowhere">>

\* pyenv folders that hold bin/python; 3.8.1 is an empty folder, foo is not named after a version,
\* 3.9 is an alias of 3.9.7: its bin/python is a symbolic link to the one of 3.9.7
Installed == {V397, V3102, Pypy37, V39}
PyenvNames == Installed \cup {V381, Foo}

\* os.listdir() gives the names in an arbitrary order
Listings ==
    {<<V381, V397, Foo, Pypy37, V3102>>, <<V3102, Pypy37, Foo, V397, V381>>,
     <<V39, V397, V3102>>, <<V397, V39, V3102>>, <<>>}

Directories ==
    {PyenvRoot, PyenvVersions, Usr, Join(Usr, <<"bin">>), Join(Usr, <<"local">>), UsrLocalBin,
     <<"/", "opt">>, OptBin, Venv, Join(Venv, <<"bin">>), Copied, Join(Copied, <<"bin">>)}
        \cup {PyenvFolder(f) : f \in PyenvNames} \cup {Join(PyenvFolder(f), <<"bin">>) : f \in Installed}

Executables ==
    {BinPython(PyenvFolder(f)) : f \in Installed}
        \cup {UsrBinPython3, Join(UsrLocalBin, <<"python">>), Join(OptBin, <<"python">>), BinPython(Venv),
              BinPython(Copied)}

isdir(path) == path \in Directories

\* is_executable()
is_executable(path) == path # <<>> /\ path \in Executables

\* os.path.realpath: /usr/local/bin/python and the alias 3.9 link to the python of 3.9.7, the python
\* of the venv /venv links to /usr/bin/python3; the python of the venv /copied (made with --copies)
\* is a file of its own
realpath(path) ==
    IF path \in {Join(UsrLocalBin, <<"python">>), BinPython(PyenvFolder(V39))} THEN BinPython(PyenvFolder(V397))
    ELSE IF path = BinPython(Venv) THEN UsrBinPython3
    ELSE path

\* os.environ["PATH"], split
PATH == <<UsrLocalBin, Join(Usr, <<"bin">>), OptBin>>

\* sys.version_info[0], as it appears in "python%s" % major
SysMajor == "3"

AllWorlds ==
    [listing : Listings,                      \* order of os.listdir()
     use_path : BOOLEAN,                      \* PythonDepot(use_path=...)
     invoker : {"pyenv", "usr"},              \* where the running python lives
     opt : {"new", "rc", "fails", "silent", "lines", "unknown"},  \* what /opt/bin/python does when probed
     venv : {"usr", "gone"}]                  \* base prefix reported by the venv's python

\* the machines looked at: the listing and the venv vary where /opt/bin/python is healthy, the alias
\* folder is listed only with a healthy venv, and the python that runs the depot lives in pyenv only
\* where pyenv lists it
Worlds ==
    {w \in AllWorlds : /\ w.opt # "new" => w.venv = "usr" /\ w.listing = <<V381, V397, Foo, Pypy37, V3102>>
                       /\ Contains(w.listing, V39) => w.venv = "usr"
                       /\ w.listing = <<>> => w.venv = "usr" /\ w.invoker = "usr"}

\* sys.base_prefix, sys.prefix, sys.version, sys.executable
SysBasePrefix(w) == IF w.invoker = "pyenv" THEN PyenvFolder(V397) ELSE Usr
SysVersion(w) == IF w.invoker = "pyenv" THEN V397 \o <<" ", "(default)">> ELSE V369 \o <<" ", "(default)">>
SysExecutable(w) == IF w.invoker = "pyenv" THEN BinPython(PyenvFolder(V397)) ELSE UsrBinPython3

\* sys.version.partition(" ")[0]
FirstWord(text) ==
    IF Contains(text, " ") THEN SubSeq(text, 1, (CHOOSE k \in 1..Len(text) : text[k] = " " /\ \A j \in 1..(k - 1) : text[j] # " ") - 1)
    ELSE text

\* run(exe, _pv.py, dryrun=False, fatal=False, logger=None): exit code, output lines, error text
Probe(w, exe) ==
    LET ok(version, sys_prefix, base_prefix) ==
            [exit_code |-> 0, output |-> <<version, sys_prefix, base_prefix>>, error |-> <<>>]
    IN  IF exe = UsrBinPython3 THEN ok(V369, Usr, Usr)
        ELSE IF exe = BinPython(Venv) THEN ok(V369, Venv, IF w.venv = "usr" THEN Usr ELSE Gone)
        ELSE IF exe = BinPython(Copied) THEN ok(V369, Copied, Usr)
        ELSE IF exe = Join(OptBin, <<"python">>)
             THEN CASE w.opt = "new" -> ok(V3114, <<"/", "opt">>, <<"/", "opt">>)
                    [] w.opt = "rc" -> ok(V310rc, <<"/", "opt">>, <<"/", "opt">>)
                    [] w.opt = "fails" -> [exit_code |-> 1, output |-> <<>>, error |-> <<"boom">>]
                    [] w.opt = "silent" -> [exit_code |-> 1, output |-> <<>>, error |-> <<>>]
                    [] w.opt = "lines" -> [exit_code |-> 0, output |-> <<V3114, <<"/", "opt">>>>, error |-> <<>>]
                    [] w.opt = "unknown" -> ok(Foo, <<"/", "opt">>, <<"/", "opt">>)
        ELSE IF \E f \in Installed : exe = BinPython(PyenvFolder(f))
             THEN LET f == CHOOSE g \in Installed : exe = BinPython(PyenvFolder(g))
                  IN  IF f = V39 THEN ok(V397, PyenvFolder(V397), PyenvFolder(V397))
                      ELSE ok(IF f = Pypy37 THEN <<"3", ".", "7", ".", "1">> ELSE f, PyenvFolder(f), PyenvFolder(f))
        ELSE [exit_code |-> 1, output |-> <<>>, error |-> <<"not found">>]

\* RunResult.full_output: error first, then the output lines
RECURSIVE JoinLines(_)
JoinLines(lines) ==
    IF lines = <<>> THEN <<>>
    ELSE IF Len(lines) = 1 THEN lines[1]
    ELSE lines[1] \o <<"\n">> \o JoinLines(Tail(lines))

RECURSIVE StripNewlines(_)
StripNewlines(text) ==
    IF text = <<>> THEN text
    ELSE IF Head(text) = "\n" THEN StripNewlines(Tail(text))
    ELSE IF text[Len(text)] = "\n" THEN StripNewlines(SubSeq(text, 1, Len(text) - 1))
    ELSE text

full_output(r) == StripNewlines(r.error \o <<"\n">> \o JoinLines(r.output))

Info(version, sys_prefix, base_prefix, problem, raised) ==
    [version |-> version, sys_prefix |-> sys_prefix, base_prefix |-> base_prefix, problem |-> problem,
     raised |-> raised]

\* PyInstallInfo.__init__, lines 172-175, for a parsed version and no problem given
InfoOfVersion(v, sys_prefix, base_prefix) ==
    Info(Some(v), sys_prefix, base_prefix, IF is_valid(v) THEN None ELSE Some(<<"unknown version">>), None)

\* PyInstallInfo.__init__; `raised` when no problem is given and there is no version to look at:
\* line 172 then reads `None.is_valid`
PyInstallInfo(version, sys_prefix, base_prefix, problem) ==
    IF problem # <<>>
    THEN Info(IF version # <<>> THEN Some(Version(version)) ELSE None, sys_prefix, base_prefix, Some(problem), None)
    ELSE IF version = <<>> THEN Info(None, sys_prefix, base_prefix, None, Some("AttributeError"))
    ELSE InfoOfVersion(Version(version), sys_prefix, base_prefix)

\* _Introspect.scan_exe, lines 703-712: an exception raised inside the try block becomes a problem
scan_lines(info) ==
    IF info.raised # None THEN PyInstallInfo(<<>>, <<>>, <<>>, <<"introspection error">>) ELSE info

\* _Introspect.scan_exe, lines 700-712, for the result r of the run
scan_result(r) ==
    IF r.exit_code # 0 THEN PyInstallInfo(<<>>, <<>>, <<>>, full_output(r))
    ELSE IF Len(r.output) # 3 THEN PyInstallInfo(<<>>, <<>>, <<>>, <<"introspection yielded lines instead of 3">>)
    ELSE scan_lines(PyInstallInfo(r.output[1], r.output[2], r.output[3], <<>>))

\* _Introspect.scan_exe
scan_exe(w, exe) == scan_result(Probe(w, exe))

\* PythonDepot.python_exes_in_folder
python_exes_in_folder(path, maj) ==
    LET resolved == resolved_path(path)
        folder == IF isdir(Join(resolved, <<"bin">>)) THEN Join(resolved, <<"bin">>) ELSE resolved
        names == IF maj # None THEN <<<<"python", maj[1]>>, <<"python">>>>
                 ELSE <<<<"python">>, <<"python", "3">>, <<"python", "2">>>>
        candidates == [k \in 1..Len(names) |-> Join(folder, names[k])]
    IN  IF path = <<>> THEN <<>>
        ELSE IF isdir(resolved) THEN SelectSeq(candidates, is_executable)
        ELSE IF is_executable(resolved) THEN <<resolved>>
        ELSE <<>>

\* PythonDepot.resolved_python_exe: the first executable, or None
resolved_python_exe(path, maj) ==
    LET exes == python_exes_in_folder(path, maj)
    IN  IF exes = <<>> THEN None ELSE Some(exes[1])

\* ---------------------------------------------------- PythonInstallation
\* PythonInstallation.__init__; no path of this machine is a macos framework path, so
\* _simplified_python_path(exe) is exe. `equivalents` is a set, empty when not given.
PythonInstallation(exe, origin, equivalents, spec, problem) ==
    [executable |-> exe, origin |-> origin, spec |-> spec, problem |-> problem, is_invoker |-> FALSE,
     equivalent |-> {exe} \cup (IF TruthyText(problem) THEN {} ELSE {realpath(exe)}) \cup equivalents]

\* PythonInstallation.__lt__, as a truth value
RecLt(a, b) ==
    IF OriginPriority(a.origin) = OriginPriority(b.origin)
    THEN IF a.spec # None
         THEN b.spec # None /\ SpecLt(a.spec[1], b.spec[1])
         ELSE b.spec # None
    ELSE OriginPriority(a.origin) < OriginPriority(b.origin)

\* PythonInstallation.satisfies, as a truth value
satisfies(python, spec) ==
    /\ ~TruthyText(python.problem)
    /\ \/ spec.canonical \in python.equivalent
       \/ StartsWith(python.spec[1].canonical, spec.canonical)

\* "python%s" % version.major
MajorToken(v) == CHOOSE t \in Digit : DigitVal(t) = v.components[1]

\* ------------------------------------------------------------ PythonDepot
\* A depot value (see Blank) holds the objects created since the last rescan (a PythonInstallation
\* is named by its position in `objs`), the attributes of PythonDepot, and while a method runs:
\* the exception raised if any, the value being returned, the number of probes made and the
\* executables probed.
Enter(d) == d @@ [raised |-> None, ret |-> 0, found |-> None, step |-> "", probes |-> 0, probed |-> <<>>]

Leave(d) == [f \in DOMAIN Blank |-> d[f]]

Raise(d, e) == IF d.raised # None THEN d ELSE [d EXCEPT !.raised = Some(e)]

\* sorted(ids, reverse=True): stable, descending by PythonInstallation.__lt__
RECURSIVE InsertSorted(_, _, _)
InsertSorted(objs, ids, x) ==
    IF ids = <<>> THEN <<x>>
    ELSE IF RecLt(objs[Head(ids)], objs[x]) THEN <<x>> \o ids
    ELSE <<Head(ids)>> \o InsertSorted(objs, Tail(ids), x)

RECURSIVE SortedReverse(_, _)
SortedReverse(objs, ids) ==
    IF ids = <<>> THEN <<>>
    ELSE InsertSorted(objs, SortedReverse(objs, SubSeq(ids, 1, Len(ids) - 1)), ids[Len(ids)])

\* PythonDepot._sort
sort(d) == [d EXCEPT !.available = SortedReverse(d.objs, d.available)]

\* result of _cached_equivalents / _register: 1 when some equivalent was new and there is no problem
Registers(d, python) == (python.equivalent \ DOMAIN d.cache) # {} /\ ~TruthyText(python.problem)

register_ListsBroken(d, python) ==
    LET id == Len(d.objs) + 1
        fresh == python.equivalent \ DOMAIN d.cache
    IN  IF d.raised # None THEN d
        ELSE [d EXCEPT !.objs = Append(@, python),
                       !.cache = [p \in DOMAIN d.cache \cup python.equivalent |->
                                     IF p \in DOMAIN d.cache THEN d.cache[p] ELSE id],
                       !.available = IF fresh # {} THEN Append(@, id) ELSE @]

register_AlwaysLists(d, python) ==
    LET id == Len(d.objs) + 1
    IN  IF d.raised # None THEN d
        ELSE [d EXCEPT !.objs = Append(@, python),
                       !.cache = [p \in DOMAIN d.cache \cup python.equivalent |->
                                     IF p \in DOMAIN d.cache THEN d.cache[p] ELSE id],
                       !.available = IF ~TruthyText(python.problem) THEN Append(@, id) ELSE @,
                       !.invalid = IF TruthyText(python.problem) THEN Append(@, id) ELSE @]

\* PythonDepot._register with _cached_equivalents, for a newly created object
register(d, python) ==
    LET id == Len(d.objs) + 1
        fresh == python.equivalent \ DOMAIN d.cache
    IN  IF d.raised # None THEN d
        ELSE [d EXCEPT !.objs = Append(@, python),
                       !.cache = [p \in DOMAIN d.cache \cup python.equivalent |->
                                     IF p \in DOMAIN d.cache THEN d.cache[p] ELSE id],
                       !.available = IF fresh # {} /\ ~TruthyText(python.problem) THEN Append(@, id) ELSE @,
                       !.invalid = IF fresh # {} /\ TruthyText(python.problem) THEN Append(@, id) ELSE @]

ToSetOf(seq) == {seq[k] : k \in 1..Len(seq)}

\* _python_from_path, lines 429-434: registers the new object and returns it
registered(d, python, sorting) ==
    [(IF Registers(d, python) /\ sorting THEN sort(register(d, python)) ELSE register(d, python))
        EXCEPT !.ret = Len(d.objs) + 1]

\* _python_from_path, lines 417-434, for a venv: `exe` is the python of the base prefix
from_venv(d, path, origin, equivalents, sorting, spec, exe, maj) ==
    IF exe # None /\ exe[1] \in DOMAIN d.cache THEN [d EXCEPT !.ret = d.cache[exe[1]]]
    ELSE IF exe = None THEN Raise(d, "TypeError")
    ELSE registered(d, PythonInstallation(exe[1], origin,
                                          IF equivalents = {}
                                          THEN ToSetOf(python_exes_in_folder(dirname(path), Some(maj)))
                                          ELSE equivalents,
                                          Some(spec), None), sorting)

\* _python_from_path, lines 411-434, for the result `info` of the probe
from_info(d, path, origin, equivalents, sorting, info) ==
    IF info.raised # None THEN Raise(d, info.raised[1])
    ELSE IF TruthyText(info.problem)
         THEN [register(d, PythonInstallation(path, origin, equivalents, None, info.problem))
                  EXCEPT !.ret = Len(d.objs) + 1]
    ELSE IF info.sys_prefix # info.base_prefix
         THEN from_venv(d, path, origin, equivalents, sorting, spec_from_text(info.version[1].text, path),
                        resolved_python_exe(info.base_prefix, Some(MajorToken(info.version[1]))),
                        MajorToken(info.version[1]))
    ELSE registered(d, PythonInstallation(path, origin, equivalents,
                                          Some(spec_from_text(info.version[1].text, path)), None), sorting)

\* PythonDepot._python_from_path: the object returned is left in `ret`
python_from_path(d, w, path, origin, equivalents, sorting) ==
    IF d.raised # None THEN d
    ELSE from_info([d EXCEPT !.probes = @ + 1, !.probed = Append(@, path)], path, origin, equivalents, sorting,
                   scan_exe(w, path))

scan_folder_NoProblem(d, folder, spec, found) ==
    IF spec.version = None THEN d
    ELSE register(d, PythonInstallation(Append(found, folder)[1], "pyenv", ToSetOf(Append(found, folder)), Some(spec),
                                        None))

\* _scan_pyenv, lines 448-456, for one folder: its spec and the executables found in it
scan_folder(d, folder, spec, found) ==
    IF spec.version = None THEN d
    ELSE register(d, PythonInstallation(Append(found, folder)[1], "pyenv", ToSetOf(Append(found, folder)), Some(spec),
                                        IF found = <<>> THEN Some(<<"invalid pyenv installation">>) ELSE None))

\* PythonDepot._scan_pyenv, the loop over os.listdir(location)
RECURSIVE scan_folders(_, _, _)
scan_folders(d, location, names) ==
    IF names = <<>> THEN d
    ELSE scan_folders(scan_folder(d, Join(location, Head(names)),
                                  spec_from_text(Head(names), Join(location, Head(names))),
                                  python_exes_in_folder(Join(location, Head(names)), None)),
                      location, Tail(names))

\* PythonDepot._scan_pyenv
scan_pyenv(d, w) ==
    IF ~isdir(resolved_path(PyenvRoot)) THEN d
    ELSE IF isdir(Join(resolved_path(PyenvRoot), <<"versions">>))
         THEN scan_folders(d, Join(resolved_path(PyenvRoot), <<"versions">>), w.listing)
    ELSE scan_folders(d, resolved_path(PyenvRoot), w.listing)

\* scan_path_env_var, first loop: every python executable of the PATH folders, in order
RECURSIVE path_exes(_)
path_exes(folders) ==
    IF folders = <<>> THEN <<>> ELSE python_exes_in_folder(Head(folders), None) \o path_exes(Tail(folders))

\* keys of `real_paths` in insertion order: real paths that are not in the cache, once each
RECURSIVE real_path_keys(_, _, _)
real_path_keys(cache, exes, keys) ==
    IF exes = <<>> THEN keys
    ELSE real_path_keys(cache, Tail(exes),
                        IF realpath(Head(exes)) \in DOMAIN cache \/ Contains(keys, realpath(Head(exes))) THEN keys
                        ELSE Append(keys, realpath(Head(exes))))

RECURSIVE scan_real_paths(_, _, _, _, _)
RECURSIVE scan_next(_, _, _, _, _)

\* scan_path_env_var, lines 326-327: `found` collects the objects of origin path
scan_next(d, w, keys, exes, found) ==
    IF d.raised # None THEN d
    ELSE scan_real_paths(d, w, keys, exes, IF d.objs[d.ret].origin = "path" THEN Append(found, d.ret) ELSE found)

\* scan_path_env_var, second loop
scan_real_paths(d, w, keys, exes, found) ==
    IF d.raised # None THEN d
    ELSE IF keys = <<>> THEN [d EXCEPT !.found = Some(found)]
    ELSE scan_next(python_from_path(d, w, Head(keys), "path", {p \in ToSetOf(exes) : realpath(p) = Head(keys)}, FALSE),
                   w, Tail(keys), exes, found)

\* scan_path_env_var, lines 330-333
scanned(d, sorting) ==
    IF d.raised # None THEN d
    ELSE [(IF sorting /\ d.found[1] # <<>> THEN sort(d) ELSE d) EXCEPT !.found = Some(SortedReverse(d.objs, d.found[1]))]

scan_path_env_var_Always(d, w, sorting) ==
    IF d.raised # None THEN d
    ELSE scanned(scan_real_paths([d EXCEPT !.path_scanned = TRUE, !.scans = @ + 1], w,
                                 real_path_keys(d.cache, path_exes(PATH), <<>>), path_exes(PATH), <<>>),
                 sorting)

\* PythonDepot.scan_path_env_var: the list returned is left in `found` (None when already scanned)
scan_path_env_var(d, w, sorting) ==
    IF d.raised # None THEN d
    ELSE IF d.path_scanned THEN [d EXCEPT !.found = None]
    ELSE scanned(scan_real_paths([d EXCEPT !.path_scanned = TRUE, !.scans = @ + 1], w,
                                 real_path_keys(d.cache, path_exes(PATH), <<>>), path_exes(PATH), <<>>),
                 sorting)

\* _find_invoker, lines 231-250, for the executables found under the base prefix
invoker_among(d, w, info, exes) ==
    LET equivalents == ToSetOf(exes) \cup {realpath(p) : p \in ToSetOf(exes)}
        exe == IF exes # <<>> THEN exes[1] ELSE realpath(SysExecutable(w))
        known == {p \in equivalents \cap DOMAIN d.cache : ~TruthyText(d.objs[d.cache[p]].problem)}
    IN  IF known # {} THEN [d EXCEPT !.ret = d.cache[CHOOSE p \in known : TRUE]]
        ELSE [register(d, PythonInstallation(exe, "path", equivalents,
                                             Some(spec_from_text(info.version[1].text, exe)), None))
                 EXCEPT !.ret = Len(d.objs) + 1]

\* _find_invoker, lines 233-250
invoker_from(d, w, info) ==
    invoker_among(d, w, info, python_exes_in_folder(info.base_prefix, Some(MajorToken(info.version[1]))))

\* PythonDepot._find_invoker: the object returned is left in `ret`; outside of a venv sys.prefix
\* is the base prefix
find_invoker(d, w, base_prefix) ==
    invoker_from(d, w, PyInstallInfo(FirstWord(SysVersion(w)), base_prefix, base_prefix, <<>>))

\* rescan, lines 219-221
scan_all(d, w, scan_path) ==
    IF scan_path THEN scan_path_env_var(scan_pyenv(d, w), w, FALSE) ELSE scan_pyenv(d, w)

\* rescan, lines 223-224
with_invoker(d, w) ==
    IF d.raised # None THEN d
    ELSE IF SysBasePrefix(w) \in DOMAIN d.cache THEN [d EXCEPT !.ret = d.cache[SysBasePrefix(w)]]
    ELSE find_invoker(d, w, SysBasePrefix(w))

\* rescan, lines 225-227
rescanned(d) ==
    IF d.raised # None THEN d
    ELSE [sort([d EXCEPT !.invoker = d.ret,
                         !.objs[d.ret].is_invoker = TRUE,
                         !.cache = [p \in DOMAIN d.cache \cup {<<"invoker">>} |->
                                       IF p = <<"invoker">> THEN d.ret ELSE d.cache[p]]])
             EXCEPT !.found = None]

rescan_KeepsLists(d, w, scan_path) ==
    rescanned(with_invoker(scan_all([Enter(d) EXCEPT !.path_scanned = ~w.use_path, !.scans = 0], w, scan_path), w))

\* PythonDepot.rescan; the objects of the previous scan are dropped with the lists that held them
rescan(d, w, scan_path) ==
    rescanned(with_invoker(scan_all([Enter(Blank) EXCEPT !.path_scanned = ~w.use_path], w, scan_path), w))

\* find_python, lines 288-290 and 294-296, `for python in ...: if python.satisfies(spec): return python`:
\* position of the first object of `ids` that satisfies spec, 0 when there is none
pick(objs, ids, spec) ==
    IF \E k \in 1..Len(ids) : satisfies(objs[ids[k]], spec)
    THEN CHOOSE k \in 1..Len(ids) : satisfies(objs[ids[k]], spec) /\ \A j \in 1..(k - 1) : ~satisfies(objs[ids[j]], spec)
    ELSE 0

\* find_python, lines 292-300, for the depot after scan_path_env_var
find_on_path(d, spec) ==
    IF d.raised # None THEN d
    ELSE IF d.found # None /\ pick(d.objs, d.found[1], spec) # 0
         THEN [d EXCEPT !.ret = d.found[1][pick(d.objs, d.found[1], spec)], !.step = "PATH"]
    ELSE [register(d, PythonInstallation(spec.text, "adhoc", {}, Some(spec), Some(<<"not available">>)))
             EXCEPT !.ret = Len(d.objs) + 1, !.step = "not available"]

\* find_python, lines 273-286, for the executable the path resolves to
find_path(d, w, spec, exe) ==
    IF exe = None
    THEN [register(d, PythonInstallation(spec.canonical, "adhoc", {}, None, Some(<<"not an executable">>)))
             EXCEPT !.ret = Len(d.objs) + 1, !.step = "not an executable"]
    ELSE IF exe[1] \in DOMAIN d.cache THEN [d EXCEPT !.ret = d.cache[exe[1]], !.step = "cached exe"]
    ELSE IF realpath(exe[1]) \in DOMAIN d.cache THEN [d EXCEPT !.ret = d.cache[realpath(exe[1])], !.step = "cached exe"]
    ELSE [python_from_path(d, w, exe[1], "adhoc", {}, TRUE) EXCEPT !.step = "from path"]

find_spec_SkipsAvailable(d, w, text, as_spec, spec) ==
    IF ~as_spec /\ text \in DOMAIN d.cache THEN [d EXCEPT !.ret = d.cache[text], !.step = "cached text"]
    ELSE IF spec.canonical \in DOMAIN d.cache THEN [d EXCEPT !.ret = d.cache[spec.canonical], !.step = "cached canonical"]
    ELSE IF is_path(spec.canonical) THEN find_path(d, w, spec, resolved_python_exe(spec.canonical, Some(SysMajor)))
    ELSE find_on_path(scan_path_env_var(d, w, TRUE), spec)

\* find_python, lines 262-300, for the parsed spec
find_spec(d, w, text, as_spec, spec) ==
    IF ~as_spec /\ text \in DOMAIN d.cache THEN [d EXCEPT !.ret = d.cache[text], !.step = "cached text"]
    ELSE IF spec.canonical \in DOMAIN d.cache THEN [d EXCEPT !.ret = d.cache[spec.canonical], !.step = "cached canonical"]
    ELSE IF is_path(spec.canonical) THEN find_path(d, w, spec, resolved_python_exe(spec.canonical, Some(SysMajor)))
    ELSE IF pick(d.objs, d.available, spec) # 0
         THEN [d EXCEPT !.ret = d.available[pick(d.objs, d.available, spec)], !.step = "available"]
    ELSE find_on_path(scan_path_env_var(d, w, TRUE), spec)

\* PythonDepot.find_python, up to the object it would return (left in `ret`); `step` names the
\* return statement reached. The spec is given as text, or as the PythonSpec parsed from that text.
find_python(d, w, text, as_spec) == find_spec(d, w, text, as_spec, spec_from_text(text, <<>>))

\* the return statements of find_python that go through _checked_pyinstall
Checked == {"cached text", "cached canonical", "not an executable", "cached exe", "from path", "not available"}

\* PythonDepot._checked_pyinstall: TRUE when it aborts
checked_pyinstall(python, isfatal) == isfatal /\ TruthyText(python.problem)

\* ------------------------------------------------- operations on the depot
MaxOps == 3

\* the texts given to find_python
SpecTexts ==
    {<<"3">>, <<"3", ".", "9">>, <<"3", ".", "1">>, <<"3", ".", "6">>, <<"python">>, Foo, V310rc,
     Join(OptBin, <<"python">>), Venv, Copied, Nowhere}

\* the calls of find_python: <<text, spec given as a PythonSpec, fatal>>
Calls ==
    {<<text, FALSE, FALSE>> : text \in SpecTexts}
        \cup {<<text, TRUE, FALSE>> : text \in {<<"3">>, <<"3", ".", "6">>, Foo}}
        \cup {<<text, FALSE, TRUE>> : text \in {<<"3">>, Foo, Nowhere, Join(OptBin, <<"python">>)}}

\* no run() is in progress: the state of the run variables while the depot is looked at on its own
RunIdle ==
    /\ opts = [background |-> FALSE, fatal |-> "True", dryrun |-> FALSE, stdout |-> "PIPE",
               stderr |-> "PIPE", passthrough |-> FALSE, full_path |-> TRUE]
    /\ pc = [p \in Procs |-> "none"]
    /\ fatal = [p \in Procs |-> opts.fatal]
    /\ result = [p \in Procs |-> RunResult]
    /\ carried = [p \in Procs |-> NoCarry]
    /\ forks = 0
    /\ spawns = 0
    /\ child = NoChild
    /\ written = EmptyStreams
    /\ ptybuf = EmptyStreams
    /\ fds = {}
    /\ readable = <<>>
    /\ ready = <<>>
    /\ buffer = EmptyStreams
    /\ chunks = EmptyStreams
    /\ eof = {}
    /\ term = EmptyStreams
    /\ pending = None

\* a depot method ends with the depot as d: the depot is updated, and `last` keeps what the caller
\* observes together with the depot as it was before the call, the executables that the call probed
\* and those probed by the calls before it since the last rescan (the probes of that rescan included)
Returns(op, text, as_spec, isfatal, scan_path, d) ==
    /\ depot' = Leave(d)
    /\ last' = [op |-> op, text |-> text, as_spec |-> as_spec, fatal |-> isfatal, scan_path |-> scan_path,
                ret |-> IF op = "find_python" /\ d.raised = None THEN d.ret ELSE 0,
                step |-> d.step, raised |-> d.raised,
                aborted |-> /\ op = "find_python" /\ d.raised = None /\ d.step \in Checked
                            /\ checked_pyinstall(d.objs[d.ret], isfatal),
                found |-> d.found, probes |-> d.probes, pre |-> depot, n |-> last.n + 1,
                probed |-> d.probed,
                since |-> IF op = "rescan" THEN {} ELSE last.since \cup ToSetOf(last.probed)]

\* PythonDepot.__init__: the depot after its first rescan()
DepotInit ==
    /\ RunIdle
    /\ world \in Worlds
    /\ depot = Leave(rescan(Blank, world, FALSE))
    /\ last = [NoOp EXCEPT !.op = "init"]
    /\ calc = NoCall

\* depot.rescan(scan_path)
Rescan(scan_path) ==
    /\ last.n < MaxOps
    /\ Returns("rescan", <<>>, FALSE, FALSE, scan_path, rescan(depot, world, scan_path))
    /\ UNCHANGED <<world, runVars, calc>>

\* depot.find_python(spec, fatal)
FindPython(text, as_spec, isfatal) ==
    /\ last.n < MaxOps
    /\ Returns("find_python", text, as_spec, isfatal, FALSE, find_python(Enter(depot), world, text, as_spec))
    /\ UNCHANGED <<world, runVars, calc>>

\* depot.scan_path_env_var()
ScanPathEnvVar ==
    /\ last.n < MaxOps
    /\ Returns("scan_path_env_var", <<>>, FALSE, FALSE, FALSE, scan_path_env_var(Enter(depot), world, TRUE))
    /\ UNCHANGED <<world, runVars, calc>>

DepotNext ==
    \/ \E scan_path \in BOOLEAN : Rescan(scan_path)
    \/ \E call \in Calls : FindPython(call[1], call[2], call[3])
    \/ ScanPathEnvVar

DepotSpec == DepotInit /\ [][DepotNext]_vars

\* the installations handed to _register: one the pyenv scan already knows, one whose real path it
\* knows, a new one, and a path that is not an executable
Registrations ==
    {PythonInstallation(BinPython(PyenvFolder(V397)), "pyenv", {PyenvFolder(V397)},
                        Some(spec_from_text(V397, PyenvFolder(V397))), None),
     PythonInstallation(Join(UsrLocalBin, <<"python">>), "path", {}, Some(spec_from_text(V397, <<>>)), None),
     PythonInstallation(Join(OptBin, <<"python">>), "adhoc", {}, Some(spec_from_text(V3114, <<>>)), None),
     PythonInstallation(Nowhere, "adhoc", {}, None, Some(<<"not an executable">>))}

\* depot._register(python): `ret` is the number it returns
Register(python) ==
    /\ last.n < MaxOps
    /\ depot' = Leave(register(Enter(depot), python))
    /\ last' = [NoOp EXCEPT !.op = "register", !.ret = IF Registers(depot, python) THEN 1 ELSE 0,
                            !.pre = depot, !.n = last.n + 1]
    /\ UNCHANGED <<world, runVars, calc>>

RegisterNext ==
    \/ \E python \in Registrations : Register(python)
    \/ ScanPathEnvVar

RegisterSpec == DepotInit /\ [][RegisterNext]_vars

Runners == {"caller", "daemon"}

RunNext ==
    \/ DryRun
    \/ NotInstalled
    \/ Running
    \/ Fork1
    \/ Fork2
    \/ Detach
    \/ \E self \in Runners : PopenFails(self)
    \/ \E self \in Runners : PopenPlain(self)
    \/ \E self \in Runners : Communicate(self)
    \/ \E self \in Runners : PopenPty(self)
    \/ \E s \in Streams : ChildWrite(s)
    \/ \E s \in Streams : ChildClose(s)
    \/ ChildExit
    \/ \E self \in Runners : Select(self)
    \/ \E self \in Runners : ReadChunk(self)
    \/ \E self \in Runners : ReadEOF(self)
    \/ \E self \in Runners, errno \in {EIO, EBADF} : ReadOSError(self, errno)
    \/ \E self \in Runners : LoopEnd(self)
    \/ \E self \in Runners : PassthroughDone(self)
    \/ \E self \in Runners : PassthroughRaises(self)
    \/ \E self \in Runners : AbortNonZero(self)
    \/ \E self \in Runners : ExitBackground(self)
    \/ \E self \in Runners : Return(self)

Next == RunNext

Spec == RunInit /\ [][Next]_vars

\* the loop of one process, taken as a whole
LoopStep(self) ==
    \/ Select(self)
    \/ ReadChunk(self)
    \/ ReadEOF(self)
    \/ \E errno \in {EIO, EBADF} : ReadOSError(self, errno)
    \/ LoopEnd(self)

\* passthrough runs of a resolvable program
PtyInit ==
    /\ RunInit
    /\ opts.passthrough /\ ~opts.dryrun /\ opts.full_path
    /\ opts.stdout = "PIPE" /\ opts.stderr = "PIPE"

PtyNext ==
    \/ Running
    \/ Fork1
    \/ Fork2
    \/ Detach
    \/ \E self \in Runners : PopenFails(self)
    \/ \E self \in Runners : PopenPty(self)
    \/ \E s \in Streams : ChildWrite(s)
    \/ \E s \in Streams : ChildClose(s)
    \/ ChildExit
    \/ \E self \in Runners : Select(self)
    \/ \E self \in Runners : ReadChunk(self)
    \/ \E self \in Runners : ReadEOF(self)
    \/ \E self \in Runners, errno \in {EIO, EBADF} : ReadOSError(self, errno)
    \/ \E self \in Runners : LoopEnd(self)
    \/ \E self \in Runners : PassthroughDone(self)
    \/ \E self \in Runners : PassthroughRaises(self)
    \/ \E self \in Runners : AbortNonZero(self)
    \/ \E self \in Runners : ExitBackground(self)
    \/ \E self \in Runners : Return(self)

\* the program eventually exits (closing its streams), and a process that can go on in the loop does
FairSpec ==
    /\ PtyInit
    /\ [][PtyNext]_vars
    /\ WF_vars(ChildExit)
    /\ \A self \in Runners : WF_vars(LoopStep(self))

\* ------------------------------------------------ functions taken on their own
\* while a function is looked at on its own, no run() is in progress and no depot is in use
Idle == RunIdle /\ world = NoWorld /\ depot = Blank /\ last = NoOp

\* the function and its arguments are chosen, the call is not yet made
Chosen(fn, args) == [fn |-> fn, args |-> args, value |-> None]

\* names of pyenv folders that hold bin/python
FolderNames ==
    {V397, V3102, <<"3", ".", "1", ".", "4">>, Pypy37, <<"miniconda", "3", "-", "4", ".", "7", ".", "1", "2">>}

\* the texts of the specs asked for, and the texts a family is guessed from (none, or a folder)
AskedTexts ==
    {<<>>, <<"python">>, <<"cpython">>, <<"3">>, <<"3", ".", "9">>, <<"3", ".", "9", ".", "7">>, <<"3", ".", "1">>,
     <<"3", ".", "1", "0">>, <<"3", "9">>, <<"3", ".", "7">>, <<"pypy", "3">>, <<"pypy", "3", ".", "7">>,
     <<"cpython", ":", "3", ".", "9">>, <<"conda", "4", ".", "7">>, <<"4">>, Foo}

FamilyHints == {<<>>, PyenvFolder(Pypy37), PyenvFolder(<<"miniconda", "3">>)}

\* the object that _scan_pyenv makes of the folder `fname`, which holds bin/python
InFolder(fname) ==
    scan_folder(Enter(Blank), PyenvFolder(fname), spec_from_text(fname, PyenvFolder(fname)),
                <<BinPython(PyenvFolder(fname))>>).objs[1]

\* the texts of the form prefix, separator, version: every prefix that R_SPEC accepts, none included
Prefixes ==
    {<<>>, <<"p">>, <<"py">>, <<"python">>, <<"cpython">>, <<"pypy">>, <<"conda">>, <<"anaconda">>,
     <<"miniconda">>, <<"miniconda", "3">>, <<"conda", "2">>}

Separators == {<<>>, <<":">>, <<"-">>}

Versions ==
    {<<"3">>, <<"3", ".", "7">>, <<"3", ".", "7", ".", "1">>, <<"2", ".", "7">>, <<"3", ".", "1", "0">>,
     <<"4", ".", "7", ".", "1", "2">>}

\* texts given to spec_from_text: the forms above, compact digits, paths, and text that is no spec
ParsedTexts ==
    {prefix \o separator \o version : prefix \in Prefixes, separator \in Separators, version \in Versions}
        \cup AskedTexts
        \cup {<<"3", "1", "0">>, <<"py", "3", "9">>, <<"pypy", "3", "7">>, <<"3", "9", "1", "0">>, <<"3", ".", "9", ".", "7", ".", "1">>,
              <<"pypy">>, <<"conda">>, <<"conda", "3">>, <<"?", "foo">>, <<"3", ".", "x">>,
              UsrBinPython3, PyenvFolder(Pypy37), <<"~", "/", "x">>, Nowhere}

\* versions to compare: the text of the dotted numbers with the tuple it stands for, and the
\* text of a tag with the number it appends to the tuple, its kind and its number
Mains ==
    {[text |-> <<"1">>, tuple |-> <<1, 0, 0, 0>>],
     [text |-> <<"1", ".", "0">>, tuple |-> <<1, 0, 0, 0>>],
     [text |-> <<"1", ".", "0", ".", "0", ".", "0">>, tuple |-> <<1, 0, 0, 0>>],
     [text |-> <<"1", ".", "9">>, tuple |-> <<1, 9, 0, 0>>],
     [text |-> <<"1", ".", "1", "0">>, tuple |-> <<1, 10, 0, 0>>],
     [text |-> <<"1", ".", "9", ".", "0">>, tuple |-> <<1, 9, 0, 0>>],
     [text |-> <<"1", ".", "9", ".", "1">>, tuple |-> <<1, 9, 1, 0>>],
     [text |-> <<"1", ".", "0", ".", "0", ".", "2">>, tuple |-> <<1, 0, 0, 2>>],
     [text |-> <<"2", ".", "0">>, tuple |-> <<2, 0, 0, 0>>],
     [text |-> <<"1", "0">>, tuple |-> <<10, 0, 0, 0>>]}

Tags ==
    {[text |-> <<>>, last |-> 0, kind |-> "", number |-> 0],
     [text |-> <<"a", "1">>, last |-> 0, kind |-> "a", number |-> 1],
     [text |-> <<"a", "2">>, last |-> 0, kind |-> "a", number |-> 2],
     [text |-> <<"b", "1">>, last |-> 0, kind |-> "b", number |-> 1],
     [text |-> <<"c", "1">>, last |-> 0, kind |-> "c", number |-> 1],
     [text |-> <<"rc", "1">>, last |-> 0, kind |-> "rc", number |-> 1],
     [text |-> <<"rc", "2">>, last |-> 0, kind |-> "rc", number |-> 2],
     [text |-> <<".", "dev", "1">>, last |-> 0, kind |-> "dev", number |-> 1],
     [text |-> <<".", "dev", "2">>, last |-> 0, kind |-> "dev", number |-> 2],
     [text |-> <<".", "post", "1">>, last |-> 1, kind |-> "", number |-> 0],
     [text |-> <<".", "final", "2">>, last |-> 2, kind |-> "", number |-> 0]}

Tagged ==
    {[text |-> main.text \o tag.text, tuple |-> Append(main.tuple, tag.last), kind |-> tag.kind,
      number |-> tag.number] : main \in Mains, tag \in Tags}

VersionTexts == {v.text : v \in Tagged}

\* texts that are no version: no number at the start, or more than 4 numbers
Unparsed ==
    {<<>>, Foo, <<"1", ".", "2", ".", "3", ".", "4", ".", "5">>, <<"1", ".", "0", ".", "0", ".", "0", ".", "0">>,
     <<"1", ".", "0", ".", "0", ".", "0", ".", "0", "a", "1">>}

GivenTexts == VersionTexts \cup Unparsed

\* the two fixed lists of categories, and the override lists given to them: up to MaxOrder names,
\* of the list or not, repeated or not
MaxOrder == 3

Slots == {<<"adhoc", "pyenv", "path">>, <<"cpython", "pypy", "conda">>}

Orders(slots) == UNION {[1..n -> ToSetOf(slots) \cup {"foo"}] : n \in 0..MaxOrder}

FunctionInit ==
    /\ Idle
    /\ \/ calc \in {Chosen("satisfies", <<fname, text, hint>>) :
                       fname \in FolderNames, text \in AskedTexts, hint \in FamilyHints}
       \/ calc \in {Chosen("spec_from_text", <<text, hint>>) : text \in ParsedTexts, hint \in FamilyHints}
       \/ calc \in {Chosen(fn, <<a, b>>) : fn \in {"lt", "eq", "keys"}, a \in GivenTexts, b \in GivenTexts}
       \/ calc \in {Chosen("Version", <<text>>) : text \in GivenTexts}
       \/ \E slots \in Slots :
             calc \in {Chosen("OrderedByName", <<slots, order, reverse>>) :
                          order \in Orders(slots), reverse \in BOOLEAN}

\* python.satisfies(spec), for the object of a pyenv folder and the spec of a text
Satisfies ==
    /\ calc.fn = "satisfies" /\ calc.value = None
    /\ calc' = [calc EXCEPT !.value = Some(satisfies(InFolder(calc.args[1]),
                                                      spec_from_text(calc.args[2], calc.args[3])))]
    /\ UNCHANGED <<runVars, depotVars>>

\* depot.spec_from_text(text, family)
Parse ==
    /\ calc.fn = "spec_from_text" /\ calc.value = None
    /\ calc' = [calc EXCEPT !.value = Some(spec_from_text(calc.args[1], calc.args[2]))]
    /\ UNCHANGED <<runVars, depotVars>>

\* the canonical string of the spec just made is parsed in its turn: by spec_from_text(canonical),
\* which guesses the family from that string, or with the family of the spec when `keep`
Reparse(keep) ==
    /\ calc.fn = "spec_from_text" /\ calc.value # None
    /\ calc' = [fn |-> "reparse", args |-> <<calc.value[1], keep>>,
                value |-> Some(IF keep THEN PythonSpec(calc.value[1].canonical, calc.value[1].family)
                               ELSE spec_from_text(calc.value[1].canonical, <<>>))]
    /\ UNCHANGED <<runVars, depotVars>>

\* Version(a) < Version(b)
Less ==
    /\ calc.fn = "lt" /\ calc.value = None
    /\ calc' = [calc EXCEPT !.value = Some(VersionLt(Version(calc.args[1]), Version(calc.args[2])))]
    /\ UNCHANGED <<runVars, depotVars>>

\* Version(a) == Version(b)
Equal ==
    /\ calc.fn = "eq" /\ calc.value = None
    /\ calc' = [calc EXCEPT !.value = Some(VersionEq(Version(calc.args[1]), Version(calc.args[2])))]
    /\ UNCHANGED <<runVars, depotVars>>

\* len({Version(a), Version(b)}): two values are one key of a set when their hashes are the same
\* and they are equal
Keys ==
    /\ calc.fn = "keys" /\ calc.value = None
    /\ calc' = [calc EXCEPT !.value =
                    Some(IF /\ VersionHash(Version(calc.args[1])) = VersionHash(Version(calc.args[2]))
                            /\ VersionEq(Version(calc.args[1]), Version(calc.args[2]))
                         THEN 1 ELSE 2)]
    /\ UNCHANGED <<runVars, depotVars>>

\* Version(text)
Construct ==
    /\ calc.fn = "Version" /\ calc.value = None
    /\ calc' = [calc EXCEPT !.value = Some(Version(calc.args[1]))]
    /\ UNCHANGED <<runVars, depotVars>>

\* OrderedByName(order, reverse) for a class of the given slots: the priority of each slot
Prioritize ==
    /\ calc.fn = "OrderedByName" /\ calc.value = None
    /\ calc' = [calc EXCEPT !.value =
                    Some([name \in ToSetOf(calc.args[1]) |->
                             OrderedByName(calc.args[1], calc.args[2], calc.args[3], name)])]
    /\ UNCHANGED <<runVars, depotVars>>

FunctionNext ==
    \/ Satisfies
    \/ Parse
    \/ Less
    \/ Equal
    \/ Keys
    \/ Construct
    \/ Prioritize
    \/ \E keep \in BOOLEAN : Reparse(keep)

FunctionSpec == FunctionInit /\ [][FunctionNext]_vars

\* ------------------------------------------------------------ run(): claims
Done(p) == pc[p] \in {"returned", "aborted", "raised", "exited"}

Unresolved == ~opts.dryrun /\ ~opts.full_path

\* the process that spawned the program, if any
IsSpawner(p) == child.spawner = Some(p)

\* the fire-and-forget case of a process
NoWait(p) == fatal[p] = "None" /\ opts.stdout = "None" /\ opts.stderr = "None"

C2_NonFatalNeverRaises ==
    opts.fatal = "False" =>
        /\ \A p \in Procs : pc[p] \notin {"raised", "aborted"}
        /\ Unresolved => (spawns = 0 /\ forks = 0)
        /\ \A p \in Runners :
              (pc[p] \in {"returned", "exited"} /\ (Unresolved \/ result[p].exc_info # None)) =>
                  /\ ~Succeeded(result[p])
                  /\ result[p].exit_code # None
                  /\ TruthyText(result[p].error)

C2_Witness ==
    /\ opts.fatal = "False" /\ ~opts.background /\ opts.passthrough
    /\ pc["caller"] = "returned"
    /\ result["caller"].exc_info = Some([type |-> "OSError", errno |-> EBADF])
    /\ child.code = Some(0)

\* a read of a pty master failed with an OS error other than EIO
ReadFailed == pending # None /\ pending[1].type = "OSError" /\ pending[1].errno # EIO

\* C3, as claimed: a non-EIO OS error while reading a pty master reaches the caller of run() as an
\* exception, whatever the value of fatal
C3_ReadErrorAlwaysPropagates ==
    \A p \in Runners : (ReadFailed /\ IsSpawner(p) /\ Done(p)) => pc[p] = "raised"

\* C3, amended: the error leaves the multiplexing loop at once; run() raises it to its caller when
\* fatal is true, otherwise it is reported through the RunResult (exc_info, exit code 1, error text)
C3_ReadErrorFollowsFatal ==
    \A p \in Runners : (ReadFailed /\ IsSpawner(p)) =>
        /\ pc[p] \notin {"loop", "with_exit", "communicate", "aborted"}
        /\ Done(p) =>
              IF Truthy(fatal[p])
              THEN pc[p] = "raised" /\ carried[p].exc = "OSError"
              ELSE /\ pc[p] \in {"returned", "exited"}
                   /\ result[p].exc_info = pending
                   /\ result[p].exit_code = Some(1)
                   /\ TruthyText(result[p].error)

C3_Witness ==
    /\ ReadFailed
    /\ opts.fatal = "None"
    /\ pc["caller"] = "returned"
    /\ result["caller"].exc_info = pending
    /\ chunks["stdout"] # <<>>

\* C4: the process that waited for a program which exited with code c # 0 (and met no exception
\* while capturing): with fatal true it aborts and the abort carries c; with fatal false it does not
\* abort, its result has exit code c, and the caller gets that result back
C4_NonZeroExit ==
    \A p \in Runners :
        (IsSpawner(p) /\ Done(p) /\ child.state = "exited" /\ TruthyCode(child.code) /\ pending = None) =>
            /\ fatal[p] = "True" => (pc[p] = "aborted" /\ carried[p].kind = "abort" /\ carried[p].code = child.code)
            /\ fatal[p] = "False" =>
                  /\ pc[p] \notin {"aborted", "raised"}
                  /\ result[p].exit_code = child.code
                  /\ ~Succeeded(result[p])
                  /\ p = "caller" => pc[p] = "returned"

C4_Witness ==
    /\ opts.fatal = "True" /\ opts.passthrough
    /\ pc["caller"] = "aborted"
    /\ child.code = Some(2)
    /\ carried["caller"].code = Some(2)
    /\ carried["caller"].exc = "Exception"

\* C5, as claimed: every RunResult that run() returns has an integer exit code, and for a program
\* that exits with 0, run with stdout=None and stderr=None, that code is 0 for every value of fatal
C5_ExitCodeIsInt ==
    \A p \in Runners : pc[p] = "returned" =>
        /\ result[p].exit_code # None
        /\ (IsSpawner(p) /\ opts.stdout = "None" /\ opts.stderr = "None" /\ pending = None
              /\ child.state = "exited" /\ child.code = Some(0)) => Succeeded(result[p])

\* what a capture of a stream amounts to once the program is gone
Complete(how, s) == IF how = "PIPE" THEN Some(Strip(DecodeBytes(written[s]))) ELSE None

C7_Background ==
    (opts.background /\ ~opts.dryrun /\ opts.full_path) =>
        /\ pc["caller"] \in {"start", "daemonize", "returned"}
        /\ ~IsSpawner("caller")
        /\ pc["caller"] = "returned" =>
              /\ result["caller"].pid # None
              /\ result["caller"].exit_code = Some(0)
              /\ pc["mid"] # "none"
        /\ pc["daemon"] \notin {"none", "devnull"} => fatal["daemon"] = "False"
        /\ pc["daemon"] \notin {"returned", "aborted", "raised"}
        /\ pc["mid"] \in {"none", "setsid", "exited"}
        /\ pc["daemon"] = "exited" =>
              /\ carried["daemon"].kind = "exit"
              /\ carried["daemon"].code = IF result["daemon"].exc_info # None THEN Some(1) ELSE child.code
              /\ result["daemon"].exc_info = None => child.state = "exited"

C7_Witness ==
    /\ opts.background /\ opts.fatal = "True"
    /\ pc["caller"] = "returned"
    /\ result["caller"].exit_code = Some(0)
    /\ pc["daemon"] = "exited"
    /\ carried["daemon"].code = Some(2)

\* the multiplexing loop of p is over (normally) or p is past it
LoopOver(p) == IsSpawner(p) /\ opts.passthrough /\ pending = None /\ pc[p] # "loop"

\* C8: for each stream separately, at every moment of a passthrough run the real stream has received
\* exactly the chunks read so far from that stream's master, decoded, one write per chunk and in
\* order (never the other stream's), and the buffer is their concatenation; this holds in particular
\* when the loop ends; chunks are never empty
C8_PassthroughOrder ==
    \A s \in Streams :
        /\ Len(term[s]) = Len(chunks[s])
        /\ \A i \in 1..Len(chunks[s]) : chunks[s][i] # <<>> /\ term[s][i] = DecodeBytes(chunks[s][i])
        /\ buffer[s] = Flatten(chunks[s])
        /\ \A p \in Runners : LoopOver(p) => Flatten(term[s]) = DecodeBytes(buffer[s])

C8_Witness ==
    /\ LoopOver("caller")
    /\ pc["caller"] = "with_exit"
    /\ Len(chunks["stdout"]) = 2
    /\ Len(chunks["stderr"]) = 1
    /\ buffer["stdout"] = <<97, 10>>
    /\ term["stderr"] = << <<"a">> >>

ToSet(seq) == {seq[i] : i \in 1..Len(seq)}

C9_Safety ==
    \A p \in Runners : (IsSpawner(p) /\ opts.passthrough) =>
        /\ ToSet(readable) = Streams \ eof
        /\ Len(readable) = Cardinality(ToSet(readable))
        /\ (pending = None /\ pc[p] # "loop") => eof = Streams
        /\ (pending = None \/ pending[1].type # "ValueError")
        /\ \A s \in Streams :
              /\ buffer[s] \o ptybuf[s] = written[s]
              /\ s \in eof => (buffer[s] = written[s] /\ s \notin child.open)

\* C9: the multiplexing loop ends (normally) exactly when both masters reached EOF: the watch set is
\* always the set of masters that did not reach EOF, a master is removed once (removing never fails),
\* EOF or EIO on one stream leaves the other one watched, no byte is lost (buffer plus unread bytes is
\* what the program wrote, and all of it at EOF); and once the program closes its streams, the loop ends
C9_LoopEnds ==
    /\ []C9_Safety
    /\ \A p \in Runners : (pc[p] = "loop") ~> (pc[p] # "loop")

C9_Witness ==
    /\ pc["caller"] = "loop"
    /\ eof = {"stderr"}
    /\ readable = <<"stdout">>
    /\ child.state = "running"
    /\ buffer["stdout"] = <<97>>
    /\ buffer["stderr"] = <<10>>

\* the spec given to the last find_python
LastSpec == spec_from_text(last.text, <<>>)

\* the objects of `available` before the last call that satisfy the spec given to it
Candidates == {id \in ToSetOf(last.pre.available) : satisfies(last.pre.objs[id], LastSpec)}

\* the last call was find_python of a spec that misses the cache (lines 262-271) and is not a path
ScansForSpec ==
    /\ last.op = "find_python"
    /\ last.as_spec \/ last.text \notin DOMAIN last.pre.cache
    /\ LastSpec.canonical \notin DOMAIN last.pre.cache
    /\ ~is_path(LastSpec.canonical)

\* C10: find_python of a spec that is neither a cache key nor a path, called while some object of
\* `available` satisfies the spec, returns an object that satisfies the spec, and no object of
\* `available` that satisfies the spec ranks strictly higher than the one returned in the order of
\* PythonInstallation.__lt__ (origin, then family, then versioned over unversioned, then Version)
C10_BestSatisfying ==
    (ScansForSpec /\ Candidates # {}) =>
        /\ last.ret # 0
        /\ satisfies(depot.objs[last.ret], LastSpec)
        /\ \A id \in Candidates : ~RecLt(depot.objs[last.ret], last.pre.objs[id])

\* the last operation returned to its caller: it neither raised nor aborted
Returned == last.raised = None /\ ~last.aborted

\* `available` is in descending record order: no object ranks strictly below one that follows it
Sorted(d) ==
    \A i, j \in 1..Len(d.available) : i < j => ~RecLt(d.objs[d.available[i]], d.objs[d.available[j]])

\* C11: after every public operation of the depot returns (construction, rescan with or without
\* scan_path, find_python, scan_path_env_var), `available` is sorted in descending order of
\* PythonInstallation.__lt__: origin priority first, then the order of PythonSpec.__lt__
C11_AvailableSorted == Returned => Sorted(depot)

\* the objects of `available` and `invalid`
Listed(d) == ToSetOf(d.available) \cup ToSetOf(d.invalid)

\* C12: after any sequence of rescan / find_python / scan_path_env_var, for every object of
\* `available` or `invalid` and every string of its `equivalent` set, _cache maps the string to that
\* very object; so no two distinct listed objects share a string of their `equivalent` sets
C12_CacheMapsEquivalents ==
    /\ \A id \in Listed(depot) : \A s \in depot.objs[id].equivalent : s \in DOMAIN depot.cache /\ depot.cache[s] = id
    /\ \A a, b \in Listed(depot) : a # b => depot.objs[a].equivalent \cap depot.objs[b].equivalent = {}

\* the object handed to the last _register
Registered == depot.objs[Len(last.pre.objs) + 1]

\* C13: _register makes every string of the object's `equivalent` set a key of _cache; when all of
\* them were keys already it changes nothing (`available`, `invalid` and _cache are as before) and
\* returns 0, so that registering the same installation twice leaves the length of `available` unchanged
C13_RegisterOnce ==
    last.op = "register" =>
        /\ Registered.equivalent \subseteq DOMAIN depot.cache
        /\ Registered.equivalent \subseteq DOMAIN last.pre.cache =>
              /\ depot.available = last.pre.available
              /\ depot.invalid = last.pre.invalid
              /\ depot.cache = last.pre.cache
              /\ last.ret = 0

\* the installation of /opt/bin/python was registered twice in a row: the second call found all its
\* strings in the cache
C13_Witness ==
    /\ last.op = "register"
    /\ last.n >= 2
    /\ Registered.executable = Join(OptBin, <<"python">>)
    /\ last.pre.objs # <<>>
    /\ last.pre.objs[Len(last.pre.objs)] = Registered
    /\ Registered.equivalent \subseteq DOMAIN last.pre.cache
    /\ Len(depot.available) = Len(last.pre.available)

\* the object has a problem
Broken(python) == TruthyText(python.problem)

\* C14: in every state of the depot every object of `available` has no problem and every object of
\* `invalid` has one, so the two lists are disjoint; an object with a problem satisfies no spec and is
\* not what the satisfies-scans of find_python return, and it remains a value of _cache
C14_ProblemsApart ==
    /\ \A id \in ToSetOf(depot.available) : ~Broken(depot.objs[id])
    /\ \A id \in ToSetOf(depot.invalid) : Broken(depot.objs[id])
    /\ ToSetOf(depot.available) \cap ToSetOf(depot.invalid) = {}
    /\ \A id \in 1..Len(depot.objs) :
          Broken(depot.objs[id]) => \A text \in SpecTexts : ~satisfies(depot.objs[id], spec_from_text(text, <<>>))
    /\ last.step \in {"available", "PATH"} => ~Broken(depot.objs[last.ret])
    /\ \A id \in ToSetOf(depot.invalid) : \E s \in DOMAIN depot.cache : depot.cache[s] = id

\* a satisfies-scan of find_python returned an object while the broken /opt/bin/python is in
\* `invalid` and in _cache, next to the empty pyenv folder
C14_Witness ==
    /\ last.op = "find_python"
    /\ last.step \in {"available", "PATH"}
    /\ \E id \in ToSetOf(depot.invalid) :
          /\ depot.objs[id].executable = Join(OptBin, <<"python">>)
          /\ depot.cache[Join(OptBin, <<"python">>)] = id
          /\ id # last.ret
    /\ \E id \in ToSetOf(depot.invalid) : depot.objs[id].origin = "pyenv"

\* the objects that an earlier find_python registered as "not available" for the spec of the last call
NotAvailable ==
    {id \in ToSetOf(last.pre.invalid) :
        /\ last.pre.objs[id].problem = Some(<<"not available">>)
        /\ last.pre.objs[id].spec[1].canonical = LastSpec.canonical}

\* C15: once find_python registered a "not available" object for a spec, every later find_python of
\* the same spec (given as text or as a PythonSpec), until the next rescan, returns that object, makes
\* no probe and no scan of the PATH, and leaves `available`, `invalid` and _cache as they were
C15_NotAvailableCached ==
    (last.op = "find_python" /\ ~last.aborted /\ NotAvailable # {}) =>
        /\ last.raised = None
        /\ \A id \in NotAvailable : depot.objs[last.ret] = last.pre.objs[id]
        /\ last.probes = 0
        /\ depot.scans = last.pre.scans
        /\ depot.available = last.pre.available
        /\ depot.invalid = last.pre.invalid
        /\ depot.cache = last.pre.cache

\* C16: between two rescans the folders of PATH are scanned at most once, whatever find_python and
\* scan_path_env_var calls are made (`scans` counts the scans since the last rescan began);
\* find_python scans only for a spec that is not a path, after the lookups in _cache and the
\* satisfies-scan of `available` found nothing; a depot built with use_path=False never scans the
\* PATH, not even in rescan(scan_path=True)
C16_PathScannedOnce ==
    /\ depot.scans <= 1
    /\ (last.op = "find_python" /\ depot.scans > last.pre.scans) => (ScansForSpec /\ Candidates = {})
    /\ ~world.use_path => depot.scans = 0

\* find_python scanned the PATH, where no scan had been made before, and returned an object found there
C16_Witness ==
    /\ world.use_path
    /\ last.op = "find_python"
    /\ last.step = "PATH"
    /\ last.n >= 2
    /\ last.pre.scans = 0
    /\ depot.scans = 1
    /\ depot.objs[last.ret].origin = "path"

\* the objects the depot holds: those of its lists and those its _cache maps to
Held(d) == Listed(d) \cup {d.cache[s] : s \in DOMAIN d.cache}

\* what a rescan that returned leaves: nothing that find_python registered (an adhoc object, a "not
\* available" placeholder), nothing found on the PATH unless this rescan scanned it (the invoker may be
\* of origin path), and the scan of the PATH pending when the depot uses the PATH
Rebuilt ==
    (last.op = "rescan" /\ Returned) =>
        /\ \A id \in Held(depot) :
              /\ depot.objs[id].origin # "adhoc"
              /\ depot.objs[id].problem # Some(<<"not available">>)
              /\ (depot.objs[id].origin = "path" /\ ~last.scan_path) => id = depot.invoker
        /\ depot.objs[depot.invoker].is_invoker
        /\ (world.use_path /\ ~last.scan_path) => ~depot.path_scanned

\* a rescan that follows the construction or a rescan with the same scan_path leaves the depot as it
\* found it
SameAgain ==
    (last.op \in {"init", "rescan"} /\ last.raised = None /\ last'.op = "rescan" /\ last'.raised = None
        /\ last'.scan_path = last.scan_path) => depot' = depot

\* C17: rescan() discards and rebuilds the whole state of the depot: after it returns nothing
\* registered before it (adhoc path lookups, "not available" placeholders, PATH finds, the previous
\* invoker) is left in _cache, `available` or `invalid`, the scan of the PATH is pending again when
\* use_path is true, and two rescans in a row over the same machine give equal states
C17_RescanRebuilds == []Rebuilt /\ [][SameAgain]_vars

\* a rescan returned on a depot that had scanned the PATH and held an adhoc object and a "not
\* available" placeholder
C17_Witness ==
    /\ last.op = "rescan"
    /\ Returned
    /\ world.use_path
    /\ last.pre.path_scanned
    /\ ~depot.path_scanned
    /\ \E id \in ToSetOf(last.pre.invalid) : last.pre.objs[id].problem = Some(<<"not available">>)
    /\ \E id \in Held(last.pre) : last.pre.objs[id].origin = "adhoc" /\ ~Broken(last.pre.objs[id])
    /\ Held(depot) # {}

\* the last call was find_python, without abort, of a spec with a version, on a depot as it is built
\* when the pyenv folder holds nothing and the PATH is not used
OnEmptyDepot ==
    /\ world.listing = <<>>
    /\ ~world.use_path
    /\ last.op = "find_python"
    /\ Returned
    /\ LastSpec.version # None
    /\ last.pre = Leave(rescan(Blank, world, FALSE))

\* C18 as stated: with pyenv folders that hold no installation and without the PATH, find_python of a
\* spec with a version (such as "3.9") returns an object whose problem is "not available"
C18_EmptyNotAvailable ==
    OnEmptyDepot => depot.objs[last.ret].problem = Some(<<"not available">>)

\* C18, amended: with pyenv folders that hold no installation and without the PATH, `available` holds
\* the python that runs the depot (the invoker); find_python of a spec with a version returns the
\* invoker when the invoker satisfies the spec, and otherwise an object whose problem is "not available"
C18_EmptyButInvoker ==
    OnEmptyDepot =>
        /\ last.pre.available = <<last.pre.invoker>>
        /\ IF satisfies(last.pre.objs[last.pre.invoker], LastSpec)
           THEN last.ret = last.pre.invoker /\ ~Broken(depot.objs[last.ret])
           ELSE depot.objs[last.ret].problem = Some(<<"not available">>) /\ last.ret \in ToSetOf(depot.invalid)

\* find_python("3.9") on the empty depot run by a python 3.6.9
C18_Witness ==
    /\ OnEmptyDepot
    /\ last.text = <<"3", ".", "9">>
    /\ depot.objs[last.ret].problem = Some(<<"not available">>)
    /\ depot.objs[depot.invoker].spec[1].canonical = <<"cpython", ":">> \o V369

\* the depots a rescan that returns leaves on this machine
FreshDepots ==
    {Leave(rescan(Blank, world, scan_path)) :
        scan_path \in {scan_path \in BOOLEAN : rescan(Blank, world, scan_path).raised = None}}

\* the objects of origin pyenv that the depot holds for a folder
OfFolder(d, folder) == {id \in Held(d) : d.objs[id].origin = "pyenv" /\ folder \in d.objs[id].equivalent}

\* what the scan of the pyenv folder leaves for the name of one of its subfolders
FolderScanned(d, folder, spec) ==
    IF spec.version = None THEN OfFolder(d, folder) = {}
    ELSE \E id \in OfFolder(d, folder) :
            /\ OfFolder(d, folder) = {id}
            /\ d.objs[id].spec = Some(spec)
            /\ IF python_exes_in_folder(folder, None) # <<>>
               THEN /\ d.objs[id].problem = None
                    /\ d.objs[id].executable = python_exes_in_folder(folder, None)[1]
                    /\ id \in ToSetOf(d.available) /\ id \notin ToSetOf(d.invalid)
               ELSE /\ d.objs[id].problem = Some(<<"invalid pyenv installation">>)
                    /\ id \in ToSetOf(d.invalid) /\ id \notin ToSetOf(d.available)

\* C19: the scan of pyenv registers, for each subfolder of the `versions` folder whose name parses to a
\* spec with a version, exactly one object of origin pyenv with that spec, without problem and in
\* `available` when the folder holds a python executable, else in `invalid` with the problem "invalid
\* pyenv installation"; a subfolder whose name has no version registers nothing; so with a folder
\* 3.9.7 that holds a python, find_python("3.9") after a rescan returns the object cpython:3.9.7
C19_PyenvScan ==
    /\ (last.op \in {"init", "rescan"} /\ Returned) =>
          /\ \A k \in 1..Len(world.listing) :
                FolderScanned(depot, PyenvFolder(world.listing[k]),
                              spec_from_text(world.listing[k], PyenvFolder(world.listing[k])))
          /\ Cardinality({id \in Held(depot) : depot.objs[id].origin = "pyenv"})
                = Cardinality({k \in 1..Len(world.listing) :
                                  spec_from_text(world.listing[k], PyenvFolder(world.listing[k])).version # None})
    /\ (last.op = "find_python" /\ last.text = <<"3", ".", "9">> /\ Returned /\ Contains(world.listing, V397)
            /\ last.pre \in FreshDepots) =>
          depot.objs[last.ret].spec[1].canonical = <<"cpython", ":">> \o V397

\* find_python("3.9") right after a rescan returned the pyenv object cpython:3.9.7, on a machine
\* whose pyenv also holds the empty folder 3.8.1 (in `invalid`) and the folder foo (nowhere)
C19_Witness ==
    /\ last.op = "find_python"
    /\ last.text = <<"3", ".", "9">>
    /\ last.pre \in FreshDepots
    /\ depot.objs[last.ret].origin = "pyenv"
    /\ depot.objs[last.ret].executable = BinPython(PyenvFolder(V397))
    /\ \E id \in ToSetOf(depot.invalid) :
          /\ depot.objs[id].executable = PyenvFolder(V381)
          /\ depot.objs[id].problem = Some(<<"invalid pyenv installation">>)
    /\ Contains(world.listing, Foo)
    /\ OfFolder(depot, PyenvFolder(Foo)) = {}

\* the last call was find_python of a spec shaped as a path that misses _cache (lines 262-271)
PathCall ==
    /\ last.op = "find_python"
    /\ is_path(LastSpec.canonical)
    /\ last.as_spec \/ last.text \notin DOMAIN last.pre.cache
    /\ LastSpec.canonical \notin DOMAIN last.pre.cache

\* the python executable that the path of the last call resolves to, None when there is none
LastExe == resolved_python_exe(LastSpec.canonical, Some(SysMajor))

\* C20: for a spec shaped as a path find_python resolves the path itself: it runs neither the
\* satisfies-scan of `available` nor the scan of the PATH; when no python executable is found at the
\* path it registers and gives an object with the problem "not an executable" (in `invalid`, cached
\* under the canonical path); otherwise it gives the object already cached for the executable or for
\* its real path, or else probes the executable and registers the result, also when the probe
\* reports a problem
C20_PathResolved ==
    /\ (last.op = "find_python" /\ is_path(LastSpec.canonical)) =>
          /\ last.step \notin {"available", "PATH", "not available"}
          /\ depot.scans = last.pre.scans
    /\ (PathCall /\ LastExe = None) =>
          /\ last.raised = None
          /\ depot.objs[last.ret].problem = Some(<<"not an executable">>)
          /\ last.ret \in ToSetOf(depot.invalid)
          /\ depot.cache[LastSpec.canonical] = last.ret
          /\ last.probes = 0
    /\ (PathCall /\ LastExe # None /\ LastExe[1] \in DOMAIN last.pre.cache) =>
          last.ret = last.pre.cache[LastExe[1]] /\ last.probes = 0 /\ depot = last.pre
    /\ (PathCall /\ LastExe # None /\ LastExe[1] \notin DOMAIN last.pre.cache
            /\ realpath(LastExe[1]) \in DOMAIN last.pre.cache) =>
          last.ret = last.pre.cache[realpath(LastExe[1])] /\ last.probes = 0 /\ depot = last.pre
    /\ (PathCall /\ LastExe # None /\ LastExe[1] \notin DOMAIN last.pre.cache
            /\ realpath(LastExe[1]) \notin DOMAIN last.pre.cache) =>
          /\ last.probes = 1
          /\ last.raised = None
          /\ last.ret \in Held(depot)
          /\ Broken(depot.objs[last.ret]) <=> scan_exe(world, LastExe[1]).problem # None

\* the probe of `exe` reports a virtual environment: it succeeds with a prefix that is not the base prefix
IsVenv(exe) ==
    LET r == Probe(world, exe) IN r.exit_code = 0 /\ Len(r.output) = 3 /\ r.output[2] # r.output[3]

\* the last call was find_python of a path that misses _cache and resolves to an executable that is
\* not cached either, by itself or by its real path: the executable was probed (lines 279-284, 410)
Probed ==
    /\ PathCall
    /\ LastExe # None
    /\ LastExe[1] \notin DOMAIN last.pre.cache
    /\ realpath(LastExe[1]) \notin DOMAIN last.pre.cache

ProbedVenv == Probed /\ IsVenv(LastExe[1])

\* C21: when the probe of an executable reports a prefix that differs from its base prefix (a virtual
\* environment), the resolution returns the object of the parent installation: the one cached for the
\* python of the base prefix, or a new one whose executable lies under the base prefix; and no object
\* of `available` has the python of a virtual environment as its executable
C21_VenvGivesParent ==
    /\ \A id \in ToSetOf(depot.available) : ~IsVenv(depot.objs[id].executable)
    /\ ProbedVenv =>
          /\ last.raised = None
          /\ last.ret # 0
          /\ StartsWith(depot.objs[last.ret].executable, Probe(world, LastExe[1]).output[3])
          /\ \/ last.ret \in DOMAIN last.pre.objs /\ last.pre.cache[depot.objs[last.ret].executable] = last.ret
             \/ last.ret \notin DOMAIN last.pre.objs /\ depot.cache[depot.objs[last.ret].executable] = last.ret

\* the probe of `exe` fails: the run fails, or prints other than 3 lines, or a version that does not parse
BadProbe(exe) ==
    LET r == Probe(world, exe)
    IN  r.exit_code # 0 \/ Len(r.output) # 3 \/ ~is_valid(Version(r.output[1]))

\* the real paths of the python executables of the PATH folders: what a scan of the PATH probes
OnPath == {realpath(exe) : exe \in ToSetOf(path_exes(PATH))}

\* C22: a probe never raises: a failed run, an output of other than 3 lines and a version that does not
\* parse each give a probe result with a problem text; the depot then registers the executable probed
\* as an object with that problem (last of `invalid`, a value of _cache, not in `available`) and leaves
\* every other object, `available` and the other entries of _cache as they were; after a scan of the
\* PATH every executable found there whose probe fails is cached as such an object
C22_ProbeNeverRaises ==
    /\ Probed =>
          /\ scan_exe(world, LastExe[1]).raised = None
          /\ BadProbe(LastExe[1]) => TruthyText(scan_exe(world, LastExe[1]).problem)
    /\ (Probed /\ BadProbe(LastExe[1])) =>
          /\ last.raised = None
          /\ last.ret = Len(last.pre.objs) + 1
          /\ depot.objs[last.ret].executable = LastExe[1]
          /\ Broken(depot.objs[last.ret])
          /\ depot.invalid = Append(last.pre.invalid, last.ret)
          /\ depot.available = last.pre.available
          /\ depot.cache[LastExe[1]] = last.ret
          /\ \A id \in DOMAIN last.pre.objs : depot.objs[id] = last.pre.objs[id]
          /\ \A p \in DOMAIN last.pre.cache : depot.cache[p] = last.pre.cache[p]
    /\ depot.scans > 0 =>
          \A exe \in OnPath :
              BadProbe(exe) =>
                  /\ exe \in DOMAIN depot.cache
                  /\ Broken(depot.objs[depot.cache[exe]])
                  /\ depot.cache[exe] \in ToSetOf(depot.invalid)
                  /\ depot.cache[exe] \notin ToSetOf(depot.available)

\* C23: find_python called with fatal false returns an object: it neither raises nor aborts, whatever
\* the text of the spec (a version, text that does not parse, a path without python, the path of a
\* virtual environment) and whatever the depot holds; and it aborts only when fatal is true and the
\* object it would return has a problem
C23_FindPythonNeverRaises ==
    last.op = "find_python" =>
        /\ ~last.fatal => last.raised = None /\ ~last.aborted /\ last.ret \in DOMAIN depot.objs
        /\ last.aborted => last.fatal /\ Broken(depot.objs[last.ret])

\* the spec of the object and the spec asked for, in the last call of satisfies
OwnSpec == InFolder(calc.args[1]).spec[1]
AskedSpec == spec_from_text(calc.args[2], calc.args[3])

\* the numeric components that the text of a spec's version gives
Given(spec) == SplitNumbers(spec.version[1].text)

\* a holds fewer components than b, and they are the leading ones of b
Truncates(a, b) == Len(a) < Len(b) /\ \A k \in 1..Len(a) : a[k] = b[k]

\* C24: an object without problem satisfies the spec of its bare family and every spec of its family
\* whose version is the object's version cut to fewer leading components; it does not satisfy a spec
\* of another family, nor a spec whose minor version differs from its own ("cpython:3.9.7" satisfies
\* "cpython:3.9" and "cpython", not "cpython:3.10")
C24_SatisfiesTruncated ==
    (calc.fn = "satisfies" /\ calc.value # None) =>
        /\ AskedSpec.canonical = <<OwnSpec.family>> => calc.value = Some(TRUE)
        /\ (AskedSpec.family = OwnSpec.family /\ AskedSpec.version # None
                /\ Truncates(Given(AskedSpec), Given(OwnSpec))) => calc.value = Some(TRUE)
        /\ AskedSpec.family # OwnSpec.family => calc.value = Some(FALSE)
        /\ (AskedSpec.version # None /\ Len(Given(AskedSpec)) >= 2
                /\ AskedSpec.version[1].components[2] # OwnSpec.version[1].components[2]) => calc.value = Some(FALSE)

\* the spec whose canonical string was parsed again, and the spec that this gave
First == calc.args[1]
Again == calc.value[1]

\* the forms of a spec: the sentinel of a text that is no spec, and a bare alias whose family is
\* not the default one
IsSentinel(spec) == spec.canonical = <<"?">> \o spec.text
IsBareOther(spec) == spec.text \in CPYTHON_NAMES /\ spec.family # "cpython"

\* C25 as stated: for the spec of every supported form (bare alias under any family, path, family
\* and version, sentinel), the canonical string parses to a spec with the same canonical string
C25_CanonicalIdempotent == calc.fn = "reparse" => Again.canonical = First.canonical

\* C25, amended: the canonical string of a path, of a family with a version, and of a bare alias
\* under the default family cpython parses to a spec with the same canonical string; the canonical
\* string of a sentinel, and of a bare alias under pypy or conda, parses to the sentinel "?" + that string
C25_CanonicalParsesBack ==
    calc.fn = "reparse" =>
        IF IsSentinel(First) \/ IsBareOther(First) THEN Again.canonical = <<"?">> \o First.canonical
        ELSE Again.canonical = First.canonical

\* witness of C25: the canonical "pypy:3.7" of the text "pypy3.7" was parsed again
C25_Witness ==
    /\ calc.fn = "reparse"
    /\ First.text = <<"pypy", "3", ".", "7">>
    /\ First.canonical = <<"pypy", ":", "3", ".", "7">>
    /\ Again.canonical = <<"pypy", ":", "3", ".", "7">>
    /\ Again.text = First.canonical

\* the last call was find_python of a text that matches no rule of the grammar
SentinelCall == last.op = "find_python" /\ LastSpec.canonical = <<"?">> \o last.text

\* C26: a text that matches no rule of the grammar gets the canonical "?" + text, and such a spec
\* matches no installation: no object without problem that the depot holds satisfies it (its
\* canonical is in no equivalence set and is the start of no object's canonical), so find_python
\* of it returns an object with the problem "not available"
C26_SentinelMatchesNothing ==
    /\ \A text \in {Foo, V310rc} : spec_from_text(text, <<>>).canonical = <<"?">> \o text
    /\ SentinelCall =>
          /\ \A id \in Held(depot) : ~satisfies(depot.objs[id], LastSpec)
          /\ last.raised = None
          /\ last.ret # 0
          /\ depot.objs[last.ret].problem = Some(<<"not available">>)

\* a text was parsed by spec_from_text, the family being guessed from the text itself
ParsedText == calc.fn = "spec_from_text" /\ calc.value # None /\ calc.args[2] = <<>>

\* the texts made of a prefix, a separator or none, and a version
PrefixedTexts ==
    {prefix \o separator \o version : prefix \in Prefixes, separator \in Separators, version \in Versions}

\* the digits of a compact group, one component each: "39" is "3.9"
Spread(digits) == JoinDots([k \in 1..Len(digits) |-> <<digits[k]>>])

\* C27: for every family prefix that the grammar accepts (p, py, python, cpython, pypy, conda,
\* anaconda, miniconda, conda2, miniconda3, or none) and every version of 1 to 3 numeric components,
\* the prefix followed by the version, with ":", "-" or nothing in between, parses to the canonical
\* "<family of the prefix>:<version>" (pypy3.7 is pypy:3.7, conda3.7 is conda:3.7); and in a text
\* that is not of this form a single group of 2 or 3 digits is read one digit per component ("39" is
\* "3.9")
C27_PrefixThenVersion ==
    ParsedText =>
        /\ \A prefix \in Prefixes, separator \in Separators, version \in Versions :
              calc.args[1] = prefix \o separator \o version =>
                  calc.value[1].canonical = <<guess_family(prefix), ":">> \o version
        /\ \A prefix \in Prefixes :
              (/\ calc.args[1] \notin PrefixedTexts
               /\ Len(calc.args[1]) - Len(prefix) \in {2, 3}
               /\ SubSeq(calc.args[1], 1, Len(prefix)) = prefix
               /\ DigitRun(calc.args[1], Len(prefix) + 1) = Len(calc.args[1]) - Len(prefix)) =>
                  calc.value[1].canonical
                      = <<guess_family(prefix), ":">> \o Spread(SubSeq(calc.args[1], Len(prefix) + 1, Len(calc.args[1])))

\* ------------------------------------------------------------ Version: claims
Compared == calc.fn = "lt" /\ calc.value # None /\ calc.args[1] \in VersionTexts /\ calc.args[2] \in VersionTexts

\* what the two texts compared stand for
Left == CHOOSE v \in Tagged : v.text = calc.args[1]
Right == CHOOSE v \in Tagged : v.text = calc.args[2]

\* a is smaller than b at the first component where they differ, the components taken as integers
NumericallyLess(a, b) ==
    \E k \in 1..Len(a) : a[k] < b[k] /\ \A j \in 1..(k - 1) : a[j] = b[j]

\* C28: the order of versions is numeric: for two valid versions whose tuples of numbers differ,
\* a < b holds exactly when the zero-padded tuple of a is smaller than the one of b, component by
\* component as integers ("1.9" < "1.10"), whatever the prerelease tags
C28_NumericOrder ==
    (Compared /\ Left.tuple # Right.tuple) =>
        calc.value = Some(NumericallyLess(Left.tuple, Right.tuple))

\* "1.9" is below "1.10a1": 9 is below 10 although "9" is above "1", and the tag has no say
C28_Witness ==
    /\ Compared
    /\ calc.args = <<<<"1", ".", "9">>, <<"1", ".", "1", "0", "a", "1">>>>
    /\ calc.value = Some(TRUE)

\* C29: of two valid versions with the same tuple of numbers, the release (no prerelease tag) is the
\* greater: prerelease < release holds and release < prerelease does not, for every kind of tag,
\* dev too ("1.0a1" < "1.0" and "1.0.dev1" < "1.0")
C29_ReleaseBeatsPrerelease ==
    (Compared /\ Left.tuple = Right.tuple) =>
        /\ (Left.kind # "" /\ Right.kind = "") => calc.value = Some(TRUE)
        /\ (Left.kind = "" /\ Right.kind # "") => calc.value = Some(FALSE)

\* place of a kind of tag in the order of the kinds, dev above the lettered ones
KindOrder(kind) == CASE kind = "a" -> 1 [] kind = "b" -> 2 [] kind = "c" -> 3 [] kind = "rc" -> 4 [] kind = "dev" -> 5

\* C30: two valid versions with the same tuple of numbers and a prerelease tag each are ordered by
\* the kind of the tag first, dev above every lettered kind (a, b, c, rc), and then by the number of
\* the tag: of two tags of one kind the smaller number is strictly less ("1.0a1" < "1.0a2",
\* "1.0.dev1" < "1.0.dev2")
C30_KindThenNumber ==
    (Compared /\ Left.tuple = Right.tuple /\ Left.kind # "" /\ Right.kind # "") =>
        calc.value = Some(\/ KindOrder(Left.kind) < KindOrder(Right.kind)
                          \/ Left.kind = Right.kind /\ Left.number < Right.number)

Constructed == calc.fn = "Version" /\ calc.value # None

\* `long` is `short` with ".0" appended once or more
ZerosAfter(short, long) ==
    /\ Len(long) > Len(short)
    /\ SubSeq(long, 1, Len(short)) = short
    /\ \A k \in (Len(short) + 1)..Len(long) : long[k] = IF (k - Len(short)) % 2 = 1 THEN "." ELSE "0"

\* the two texts of a call are those of two versions with the same tag, the numbers of one being
\* those of the other with ".0" appended
PaddedPair ==
    \E short \in Mains, long \in Mains, tag \in Tags :
        /\ ZerosAfter(short.text, long.text)
        /\ calc.args \in {<<short.text \o tag.text, long.text \o tag.text>>,
                          <<long.text \o tag.text, short.text \o tag.text>>}

\* C31: a text of 1 to 4 numbers is a valid version whose tuple is the numbers padded with zeros
\* to 4, then the numeral of final/post or else 0, so that a text and the same text with ".0"
\* appended are equal versions ("1.2" equals "1.2.0.0"); a text of more than 4 numbers is an
\* invalid version
C31_PaddedTuple ==
    /\ (Constructed /\ calc.args[1] \in VersionTexts) =>
            /\ is_valid(calc.value[1])
            /\ calc.value[1].components = (CHOOSE v \in Tagged : v.text = calc.args[1]).tuple
    /\ (Constructed /\ calc.args[1] \in Unparsed /\ DigitRun(calc.args[1], 1) > 0) =>
            ~is_valid(calc.value[1])
    /\ (calc.fn = "eq" /\ calc.value # None /\ PaddedPair) => calc.value = Some(TRUE)

\* "1.0" and "1.0.0.0" were compared and are equal
C31_Witness ==
    /\ calc.fn = "eq"
    /\ calc.args = <<<<"1", ".", "0">>, <<"1", ".", "0", ".", "0", ".", "0">>>>
    /\ calc.value = Some(TRUE)

\* C32: an invalid version never compares greater than a valid one: for an invalid version i and a
\* valid version v, v < i is false and i < v is true
C32_InvalidNeverGreater ==
    (calc.fn = "lt" /\ calc.value # None) =>
        /\ (calc.args[1] \in VersionTexts /\ calc.args[2] \in Unparsed) => calc.value = Some(FALSE)
        /\ (calc.args[1] \in Unparsed /\ calc.args[2] \in VersionTexts) => calc.value = Some(TRUE)

\* "1.2.3.4.5", a text of 5 numbers, was found to be below "1.0a1"
C32_Witness ==
    /\ calc.fn = "lt"
    /\ calc.args = <<<<"1", ".", "2", ".", "3", ".", "4", ".", "5">>, <<"1", ".", "0", "a", "1">>>>
    /\ calc.value = Some(TRUE)

\* ------------------------------------------------------------ OrderedByName: claims
Prioritized == calc.fn = "OrderedByName" /\ calc.value # None

\* place of the first and of the last mention of a name in a list
FirstAt(order, name) == CHOOSE k \in 1..Len(order) : order[k] = name /\ \A j \in 1..(k - 1) : order[j] # name
LastAt(order, name) == CHOOSE k \in 1..Len(order) : order[k] = name /\ \A j \in (k + 1)..Len(order) : order[j] # name

\* every fixed category has a priority of its own
DistinctPriorities ==
    \A a \in DOMAIN calc.value[1], b \in DOMAIN calc.value[1] : a # b => calc.value[1][a] # calc.value[1][b]

\* with reverse=true, a category not named in the override is below every named one, and the
\* categories not named are in declared order
OmittedBelow ==
    calc.args[3] =>
        \A a \in DOMAIN calc.value[1], b \in DOMAIN calc.value[1] :
            /\ (Contains(calc.args[2], a) /\ ~Contains(calc.args[2], b)) => calc.value[1][a] > calc.value[1][b]
            /\ (/\ ~Contains(calc.args[2], a) /\ ~Contains(calc.args[2], b)
                /\ FirstAt(calc.args[1], a) < FirstAt(calc.args[1], b)) => calc.value[1][a] > calc.value[1][b]

\* C33: for every override list (names repeated, names outside the fixed set, empty list), every
\* fixed category gets a priority distinct from that of every other fixed category; with
\* reverse=true the categories named in the override rank highest, in the order given (earliest
\* = highest), and every category left out ranks below them, in declared order
C33_DistinctInOrderGiven ==
    Prioritized =>
        /\ DistinctPriorities
        /\ OmittedBelow
        /\ calc.args[3] =>
              \A a \in DOMAIN calc.value[1], b \in DOMAIN calc.value[1] :
                  (/\ Contains(calc.args[2], a) /\ Contains(calc.args[2], b)
                   /\ FirstAt(calc.args[2], a) < FirstAt(calc.args[2], b)) => calc.value[1][a] > calc.value[1][b]

\* C33, amended: the same, a category named more than once taking the place of its last mention
C33_DistinctInOrderOfLastMention ==
    Prioritized =>
        /\ DistinctPriorities
        /\ OmittedBelow
        /\ calc.args[3] =>
              \A a \in DOMAIN calc.value[1], b \in DOMAIN calc.value[1] :
                  (/\ Contains(calc.args[2], a) /\ Contains(calc.args[2], b)
                   /\ LastAt(calc.args[2], a) < LastAt(calc.args[2], b)) => calc.value[1][a] > calc.value[1][b]

\* Families("pypy,conda,pypy"): conda, pypy, cpython
C33_Witness ==
    /\ Prioritized
    /\ calc.args = <<<<"cpython", "pypy", "conda">>, <<"pypy", "conda", "pypy">>, TRUE>>
    /\ calc.value[1]["conda"] > calc.value[1]["pypy"]
    /\ calc.value[1]["pypy"] > calc.value[1]["cpython"]

\* C35: an object without problem satisfies a spec of its family that has a version only if that
\* version is a prefix of its own, component by component: every number the spec gives is the
\* object's number at that place (the object of 3.10.2 does not satisfy the spec "3.1")
C35_ComponentPrefix ==
    (/\ calc.fn = "satisfies" /\ calc.value = Some(TRUE)
     /\ AskedSpec.version # None /\ AskedSpec.family = OwnSpec.family) =>
        /\ Len(Given(AskedSpec)) <= Len(Given(OwnSpec))
        /\ \A k \in 1..Len(Given(AskedSpec)) : Given(AskedSpec)[k] = Given(OwnSpec)[k]

\* C39: equality and hash of versions agree: two versions that are equal (same tuple of numbers
\* and same prerelease tag, as "1.2" and "1.2.0.0") have the same hash, and so are one key of a
\* set or dict
C39_EqualIsOneKey ==
    (/\ calc.fn = "keys" /\ calc.value # None
     /\ calc.args[1] \in VersionTexts /\ calc.args[2] \in VersionTexts
     /\ Left.tuple = Right.tuple /\ Left.kind = Right.kind /\ Left.number = Right.number) =>
        calc.value = Some(1)

\* C34: when find_python(s) returns an object with the problem "not available", no object of
\* `available` satisfies the spec of s at that moment; so for every call of every sequence of
\* operations between rescans, also after other lookups (of an explicit path) added objects to
\* `available`
C34_NotAvailableMeansNone ==
    (/\ last.op = "find_python" /\ last.raised = None /\ ~last.aborted
     /\ depot.objs[last.ret].problem = Some(<<"not available">>)) =>
        \A id \in ToSetOf(depot.available) : ~satisfies(depot.objs[id], LastSpec)

\* the last call probed no executable that was probed before since the last rescan, and none twice
ProbedOnce ==
    \A k \in 1..Len(last.probed) :
        /\ last.probed[k] \notin last.since
        /\ \A j \in 1..(k - 1) : last.probed[j] # last.probed[k]

\* find_python of a spec shaped as a path has returned
PathReturned ==
    last.op = "find_python" /\ is_path(LastSpec.canonical) /\ last.raised = None /\ ~last.aborted

\* C36: between two rescans no executable is probed more than once: after find_python of a spec
\* shaped as a path has returned, find_python of the same spec again finds a cached object and
\* makes no probe, also when the path is that of a venv whose parent installation was cached
C36_ProbedOnce ==
    [][/\ ProbedOnce'
       /\ (PathReturned /\ last'.op = "find_python" /\ last'.text = last.text) =>
             /\ last'.probes = 0
             /\ last'.step \in {"cached text", "cached canonical", "cached exe"}]_vars

\* ------------------------------------------------------------ run(): more claims
\* C37: in a background run the pid in the RunResult that the calling process gets is the pid of
\* the detached process that executes the program, the one that survives the two forks, and not
\* the pid of a process that has exited already
C37_PidOfDetached ==
    (opts.background /\ pc["caller"] = "returned" /\ result["caller"].pid # None) =>
        /\ result["caller"].pid = Some(Pid("daemon"))
        /\ \A p \in Procs : result["caller"].pid = Some(Pid(p)) => (pc[p] = "exited" => IsSpawner(p))

\* the process that calls _run_popen: the detached one in a background run
Runner == IF opts.background THEN "daemon" ELSE "caller"

\* C38: every pty descriptor opened for a passthrough run (two masters, two slaves) is closed in
\* the calling process by the time _run_popen returns or raises: the slaves right after the spawn,
\* the masters after the loop, on every way out, a failed spawn and a read error other than EIO
\* included
C38_PtysClosed ==
    /\ pc[Runner] \in {"loop", "with_exit", "unwind"} => fds \subseteq Masters
    /\ (pc[Runner] = "check" \/ Done(Runner)) => fds = {}

====
